---- MODULE Spec2Model ----
(***************************************************************************)
(* State-machine model of the conversational messaging core of the         *)
(* WhatsApp agent platform (backend/services, backend/api/routers).        *)
(*                                                                         *)
(* The module is organised by subsystem.  Every subsystem has its own      *)
(* initial predicate, its own actions and its own specification; a         *)
(* specification leaves the variables of the other subsystems unchanged.   *)
(*                                                                         *)
(*   SpecBuffer   services/message_buffer.py  (Redis backed batcher)       *)
(***************************************************************************)
EXTENDS Integers, Sequences, FiniteSets, TLC

(***************************************************************************)
(* Bounds of the model.                                                    *)
(***************************************************************************)
\* number of API instances sharing Redis and the database
NInst == 2
\* number of inbound messages of the one (agent, phone) pair that is modelled
MaxMsgs == 3
\* batching_config["max_batch_messages"] of the modelled agent
max_messages == 2
\* number of webhook requests
MaxReq == 3
\* last value of the dedup clock (minutes)
MaxClock == 6
\* message_processing.py: _DEDUP_TTL_MINUTES
DEDUP_TTL_MINUTES == 5
\* last value of the scheduler clock
MaxTime == 7
\* scheduler.py: CHECK_INTERVAL (seconds)
CHECK_INTERVAL == 30
\* scheduler.py: LOCK_DURATION (seconds)
LOCK_DURATION == 180
\* number of appointments
MaxApt == 1
\* number of rules in calendar_config["reminders"]["rules"]
NRules == 2
\* number of ScheduledReminder rows
MaxRows == 3
\* number of executions of process_pending_reminders that may overlap
NExec == 2
\* number of reschedule_appointment calls per appointment
MaxResched == 1
\* number of ScheduledFollowup rows
MaxFu == 2
\* number of batches of customer messages
MaxBatch == 2
\* last value of the follow-up clock
MaxFuClock == 4
\* number of summary tasks (scheduler cycles and appointment webhooks) that may overlap
NSumTask == 2
\* last created_at of a user message
MaxSumTime == 2
\* number of messages of the burst
MaxBurst == 4
\* batching_config["max_batch_messages"] of the agent of the burst
burst_max_messages == 4
\* batching_config["debounce_seconds"]
debounce_seconds == 3
\* last value of the burst clock
MaxBurstClock == 9
\* number of messages in the in-memory scenario
MaxMemMsgs == 4
\* number of POST /webhook requests
MaxPosts == 3
\* number of different message texts
NBodies == 2
\* number of different inbound Meta messages (provider message ids)
NWamids == 3
\* last value of the Meta endpoint's clock (minutes)
MaxMetaClock == 6
\* number of batches of the conversation whose time stamp is followed
MaxStampBatches == 3
\* last value of the wall clock of the time-stamp model
MaxStampClock == 4
\* config["max_followups"]: the length of the follow-up sequence
max_followups == 2
\* number of ScheduledFollowup rows of the conversation
MaxSeqRows == 5
\* summary_config["webhook_retry_count"]
webhook_retry_count == 2
\* number of webhook POSTs followed for the row
MaxHookPosts == 5
\* number of concurrent calls of _call_with_retry
NKeyCalls == 1
\* the clock of the key pool (seconds) stops here
MaxKeyClock == 40
\* the seconds between two observed values of the clock of the key pool
KeyTickStep == 10
\* the retry-after of a 429 that carries one (seconds)
MaxRetryAfter == 10
\* key_manager.py: COOLDOWN_DEFAULT (seconds)
COOLDOWN_DEFAULT == 30
\* key_manager.py: JITTER_MAX (seconds)
JITTER_MAX == 10
\* openai_provider.MAX_RETRIES / GeminiProvider.MAX_RETRIES
MAX_RETRIES == 3
\* number of messages of the conversation
MaxCtxMsgs == 3
\* the clock of the message time stamps stops here
MaxCtxClock == 1
\* context_summary_config["full_summary_every"]
full_summary_every == 2
\* builder.MAX_MESSAGES_FOR_FULL_SUMMARY (200), scaled to the number of messages
MAX_MESSAGES_FOR_FULL_SUMMARY == 2
\* number of batches of the agent
MaxUsageBatches == 3
\* the largest token count of one AI call
MaxTokens == 2
\* number of messages of the customer while the store fails and recovers
MaxDegMsgs == 4
\* number of concurrent tool calls on the agent's calendar
NBookCalls == 2
\* start times are 0..MaxBookTime, durations 1..MaxDuration
MaxBookTime == 1
MaxDuration == 2
\* rows of the appointments table
MaxAptRows == 2
\* due reminders of the appointment
NCxlRows == 2
\* llm/anthropic.py, openai_provider.py, gemini.py, ai.py: max_tool_rounds = 5
ToolRoundCap == 5
\* the largest number of tool calls in one completion
MaxToolCalls == 2
\* runs of the context-summary engine that save a summary
MaxSummaryRuns == 7
\* runs started, those that raise included
MaxSummaryAttempts == 10

Instances == 1..NInst
Msgs == 1..MaxMsgs
Reqs == 1..MaxReq
Apts == 1..MaxApt
RuleIdx == 0..(NRules - 1)
Execs == 1..NExec
FuIds == 1..MaxFu
Batches == 1..MaxBatch
SumTasks == 1..NSumTask
\* logical message ids; an id n stands for a string whose last character is
\* '0' exactly when n is a multiple of 10
MessageIds == {7, 10}

\* the webhook bodies of the sender's messages: WebhookMessage.id and the
\* text; the messages 1 and NBodies + 1 have the same text
Bodies == {[id |-> k, text |-> ((k - 1) % NBodies) + 1] : k \in 1..NWamids}
\* the values of the per-process seed of str.__hash__
HashSeeds == {0, 1}
\* no process of the instance is running
NoSeed == 2

StampBatches == 1..MaxStampBatches

KeyCalls == 1..NKeyCalls
\* the pool of the provider, in the order of the environment variable
PoolKeys == <<"K1", "K2">>
\* agent-level override keys: one that is also in the pool, one that is not
CustomKeys == {"K1", "K3"}
NoCustom == "none"
\* the retry-after values of a 429: 0 for an absent header or a zero
RetryAfters == {0, MaxRetryAfter}
\* the values of random.uniform(0, JITTER_MAX) followed: the two ends
Jitters == {0, JITTER_MAX}

CtxMsgs == 1..MaxCtxMsgs

UsageBatches == 1..MaxUsageBatches

DegMsgs == 1..MaxDegMsgs

BookCalls == 1..NBookCalls

CxlRows == 1..NCxlRows

ToolProviders == {"anthropic", "openai", "google"}
ToolNames == {"send_media", "search_knowledge"}
\* the tool calls a completion can contain; none means a text answer
Completions == UNION {[1..n -> ToolNames] : n \in 0..MaxToolCalls}

\* no ConversationContextSummary row of the conversation
NoRow == 0 - 1

Range(s) == {s[k] : k \in 1..Len(s)}

VARIABLES
    \* ---- message_buffer.py (Redis mode), one (agent_id, user_phone) pair
    redis_buffer,      \* the Redis list msg_buffer:{agent}:{phone}
    redis_lock,        \* msg_lock:{agent}:{phone}: 0 = absent, else the process that set it
    processing_tasks,  \* per instance: _processing_tasks[task_key], 0 = no entry
    pc,                \* per message: position of its add_message call / its drain
    inst,              \* per message: the instance that received it (0 = not yet received)
    count,             \* per message: the llen result of its add_message call
    batch,             \* per message: messages_json read by its drain (lrange)
    flushed,           \* batches handed to process_callback, in call order
    removedBy,         \* per message: the drain whose r.delete(key) removed it, 0 = none
    expired,           \* messages removed by the expiry of the buffer key
    \* ---- message_processing.py is_duplicate + the webhook routers
    processed_messages, \* rows of ProcessedMessage: [message_id, processed_at]
    rpc,               \* per webhook request: position in is_duplicate
    rinst,             \* per webhook request: the instance that serves it
    rid,               \* per webhook request: its logical message id
    rat,               \* per webhook request: arrival time (minutes)
    dispatched,        \* requests that created the handler task
    dnow,              \* the clock of the dedup store (minutes)
    \* ---- scheduler.py
    snow,              \* the scheduler clock, in units of CHECK_INTERVAL
    scheduler_lock,    \* the key scheduler:lock: [owner, expires], owner 0 = absent
    spc,               \* per instance: position of its start_scheduler loop
    wake,              \* per instance: end of its asyncio.sleep(CHECK_INTERVAL)
    running,           \* per instance: the module flag _running
    store_up,          \* whether Redis answers
    store_was_down,    \* whether Redis has failed to answer at some point
    due,               \* a reminder, summary or follow-up that became due: [at, acted]
    cycle_error,       \* per instance: its loop has logged "cycle error"
    \* ---- reminders.py + appointments.py
    appointments,      \* per appointment id: [status, op]
    reminders,         \* rows of ScheduledReminder, row id = index
    epc,               \* per execution of process_pending_reminders: its position
    elist,             \* per execution: the rows of "pending" still to handle
    edue,              \* per execution: the rows with scheduled_for <= its "now"
    provider_sends,    \* per row id: number of provider sends made for the row
    ever_sent,         \* row ids whose status has been sent at some point
    reschedules,       \* per appointment id: completed reschedule_appointment calls
    \* ---- followups.py + message_processing.py (one conversation of one agent)
    followups,         \* rows of ScheduledFollowup, row id = index
    fu_enabled,        \* followup_config["enabled"] of the agent
    conv,              \* the Conversation row: is_paused, opted_out, last_customer_message_at
    last_role,         \* role of the newest Message row of the conversation
    fnow,              \* the clock: every timestamp taken is a new value
    fupc,              \* position of process_pending_followups
    fulist,            \* the rows of its "pending" list
    tpc,               \* per row id: position of the row's _run task
    bpc,               \* per batch: position of process_batched_messages
    cancel_seen,       \* row ids that were pending/evaluating when a batch was processed
    sent_after_inbound,\* row ids sent although a customer message came after their creation
    reply_while_flagged,    \* an AI reply was sent while is_paused or opted_out was set
    followup_while_flagged, \* a follow-up was sent while is_paused or opted_out was set
    \* ---- summaries.py + appointments.py (conversation summaries of one conversation)
    user_msg_time,     \* max(Message.created_at) over the user messages, NoUserMsg if none
    summaries,         \* the last_message_at column of the ConversationSummary rows
    sumpc,             \* per summary task: its position
    sumkey,            \* per summary task: the last_user_msg_time it has read
    sum_rejected,      \* <<path, key>> of the inserts that raised IntegrityError
    \* ---- message_buffer.py, one burst of messages of one pair, with time
    burst_now,         \* the clock (seconds)
    burst_list,        \* the Redis list msg_buffer:{agent}:{phone}
    burst_lock,        \* msg_lock:{agent}:{phone}: 0, or the instance whose callback runs
    burst_timer,       \* per instance: the time its debounce task wakes up, 0 if it has none
    burst_count,       \* number of messages of the burst that have arrived
    burst_last,        \* arrival time of the newest message
    callbacks,         \* the process_callback invocations: [at, msgs]
    \* ---- message_buffer.py in-memory fallback + process_batched_messages, one pair
    mem_messages,      \* _memory_buffers[key].messages
    mem_task,          \* _memory_buffers[key].task: "none" or "sleep"
    mem_arrived,       \* number of messages that have arrived
    mem_batches,       \* the batches handed to the callback, in drain order
    mem_stage,         \* per batch: "ai" (messages saved, awaiting the model) or "done"
    mem_log,           \* the saves and sends of the conversation, in order: [batch, what]
    \* ---- routers/webhook.py: POST /webhook of the Meta provider, one sender
    hash_seed,         \* per instance: the hash seed of its running Python process, or NoSeed
    meta_processed,    \* rows of ProcessedMessage written by the Meta endpoint
    posts,             \* the posts answered so far: [body, inst, at, duplicate]
    meta_now,          \* the clock (minutes)
    \* ---- process_batched_messages: last_customer_message_at of one conversation
    stamp_now,         \* the wall clock read by datetime.utcnow()
    lcm_column,        \* conversations.last_customer_message_at in the database (0 = NULL)
    stamp_stage,       \* per batch: "new", "assigned" (attribute set in the session), "committed"
    stamp_inst,        \* per batch: the instance that processes it
    stamp_value,       \* per batch: the value it assigned
    \* ---- followups.py: the follow-up sequence of one conversation, customer silent
    seq_rows,          \* the ScheduledFollowup rows of the conversation: sequence of statuses
    scan_pc,           \* per execution of scan_for_followups: "idle" or "insert"
    \* ---- summaries.py: the summary row of one message window and its webhook
    hook_rows,         \* the ConversationSummary rows of the window: [status, attempts, due]
    hook_url,          \* summary_config has a webhook_url
    hook_posts,        \* the POSTs made so far: [by, id, status of the row when the POST was made]
    hk_pc,             \* per execution of create_and_send_summary: its position or how it returned
    hk_url,            \* per execution: the webhook_url of the config dict it was called with
    rt_pc,             \* per execution of retry_pending_webhooks: "idle" or "post"
    rt_attempts,       \* per execution: webhook_attempts of its copy of the row
    \* ---- llm/key_manager.py and the providers' _call_with_retry, one provider's pool
    key_now,           \* time.time()
    available_at,      \* per pool key: _KeyState.available_at
    key_dead,          \* per pool key: _KeyState.dead
    rr_counter,        \* _counters[provider]
    key_last,          \* what the latest get_key on the pool returned, and the pool it saw
    call_pc,           \* per call of _call_with_retry: "idle" or "calling"
    call_key,          \* per call: the provider's _api_key
    call_custom,       \* per call: agent.custom_api_keys[provider], or NoCustom
    call_attempt,      \* per call: attempt of the retry loop
    \* ---- context_summary: the messages and the context summary of one conversation
    ctx_now,           \* datetime.utcnow()
    add_pc,            \* per message: "new", "stamped", "inserted" or "committed"
    add_at,            \* per message: created_at
    add_id,            \* per message: id (0 before the INSERT)
    ctx_covered,       \* last_message_id_covered of the conversation's row, 0 without a row
    ctx_count,         \* incremental_count of the row
    ctx_inputs,        \* ids of the messages that were in the prompt of a run that saved
    ctx_lock,          \* context_summary:lock:{conversation_id} is set
    run_pc,            \* per worker: "idle" or "llm"
    run_base,          \* per worker: last_message_id_covered of the row it loaded, 0 for none
    run_count,         \* per worker: incremental_count of the row it loaded
    run_input,         \* per worker: ids of the messages in its prompt
    run_last,          \* per worker: what get_last_message_id returned
    \* ---- models/agent.py add_usage: one counter of usage_stats[model] of one agent
    usage_stats,       \* the counter in the agents row
    usage_sum,         \* the tokens add_usage was called with by the batches that committed
    ub_pc,             \* per batch: "new", "loaded", "added" or "done"
    ub_copy,           \* per batch: the counter in its session's copy of the agent
    ub_tokens,         \* per batch: the tokens of its AI call
    \* ---- message_buffer.py on one instance whose key-value store can fail
    kv_up,             \* Redis answers
    redis_pool,        \* _redis_pool is not None
    redis_avail,       \* _redis_available: "None", "True" or "False"
    deg_list,          \* the Redis list msg_buffer:{agent}:{phone}
    deg_mem,           \* _memory_buffers[key].messages
    deg_timer,         \* the pending debounce task: "none", "redis" or "memory"
    deg_accepted,      \* the messages add_message was called with
    deg_delivered,     \* the messages passed to process_callback
    \* ---- appointments.py book_appointment / reschedule_appointment: the
    \* ---- appointments table of one agent
    apt_rows,          \* sequence of [start_time, end_time, status]
    bk_pc,             \* per tool call: "idle", "book" or "reschedule" (conflict query passed)
    bk_op,             \* per tool call: [id, start_time, end_time] of the call in progress
    bk_result,         \* per tool call: what its last call returned
    \* ---- appointments.py cancel_appointment against reminders.py
    \* ---- process_pending_reminders / send_reminder, for one appointment
    cxl_status,        \* Appointment.status
    cxl_rows,          \* per ScheduledReminder of the appointment: its status
    cxl_pc,            \* cancel_appointment: "idle", "reminders_cancelled" or "returned"
    cxl_epc,           \* per execution: "idle", "fetch", "claim", "check" or "send"
    cxl_list,          \* per execution: the rows of its query still to handle
    \* ---- llm/anthropic.py, llm/openai_provider.py, llm/gemini.py and ai.py:
    \* ---- the tool loop of one get_response call
    tool_provider,     \* "none" when no call is running, else the provider of the call
    max_tool_rounds,   \* the rounds left
    tool_calls,        \* the tool calls of the current completion: sequence of tool names
    handler_calls,     \* invocations of tool_handler in this call
    tool_results,      \* last round: per tool call, the call whose result it was given
    media_actions,     \* last round: the calls whose send_media result was appended
    \* ---- appointments.py book_appointment: the order of its effects
    fx_pc,             \* per call: "start", "calendar", "insert", "webhook", "reminders",
                       \*   "returned", "none" (returned None) or "raised"
    fx_cfg,            \* per call: [google, webhook_url] of the agent's calendar config
    fx_log,            \* per call: the effects made so far, in order
    \* ---- context_summary/runner.py run_summary / _save_summary: the runs
    \* ---- of one conversation, one after the other
    every_row,         \* NoRow, or incremental_count of the conversation's row
    every_pc,          \* "idle" or "llm" (a run waits for the LLM)
    every_is_full,     \* is_full of the run in progress
    every_runs,        \* runs that saved a summary so far
    every_attempts,    \* runs started so far
    every_full         \* the numbers of the runs that were full summaries

bufVars == <<redis_buffer, redis_lock, processing_tasks, pc, inst, count, batch,
             flushed, removedBy, expired>>

dedupVars == <<processed_messages, rpc, rinst, rid, rat, dispatched, dnow>>

schedVars == <<snow, scheduler_lock, spc, wake, running, store_up, store_was_down,
               due, cycle_error>>

remVars == <<appointments, reminders, epc, elist, edue, provider_sends, ever_sent,
             reschedules>>

fuVars == <<followups, fu_enabled, conv, last_role, fnow, fupc, fulist, tpc, bpc,
            cancel_seen, sent_after_inbound, reply_while_flagged, followup_while_flagged>>

sumVars == <<user_msg_time, summaries, sumpc, sumkey, sum_rejected>>

burstVars == <<burst_now, burst_list, burst_lock, burst_timer, burst_count, burst_last, callbacks>>

memVars == <<mem_messages, mem_task, mem_arrived, mem_batches, mem_stage, mem_log>>

metaVars == <<hash_seed, meta_processed, posts, meta_now>>

stampVars == <<stamp_now, lcm_column, stamp_stage, stamp_inst, stamp_value>>

seqVars == <<seq_rows, scan_pc>>

hookVars == <<hook_rows, hook_url, hook_posts, hk_pc, hk_url, rt_pc, rt_attempts>>

keyVars == <<key_now, available_at, key_dead, rr_counter, key_last, call_pc, call_key, call_custom, call_attempt>>

ctxVars == <<ctx_now, add_pc, add_at, add_id, ctx_covered, ctx_count, ctx_inputs, ctx_lock, run_pc, run_base, run_count, run_input, run_last>>

usageVars == <<usage_stats, usage_sum, ub_pc, ub_copy, ub_tokens>>

degVars == <<kv_up, redis_pool, redis_avail, deg_list, deg_mem, deg_timer, deg_accepted, deg_delivered>>

bookVars == <<apt_rows, bk_pc, bk_op, bk_result>>

cxlVars == <<cxl_status, cxl_rows, cxl_pc, cxl_epc, cxl_list>>

toolVars == <<tool_provider, max_tool_rounds, tool_calls, handler_calls, tool_results, media_actions>>

effectsVars == <<fx_pc, fx_cfg, fx_log>>

everyVars == <<every_row, every_pc, every_is_full, every_runs, every_attempts, every_full>>

vars == <<bufVars, dedupVars, schedVars, remVars, fuVars, sumVars, burstVars, memVars, metaVars, stampVars, seqVars, hookVars, keyVars, ctxVars, usageVars, degVars, bookVars, cxlVars, toolVars, effectsVars, everyVars>>

nonBufVars == <<dedupVars, schedVars, remVars, fuVars, sumVars, burstVars, memVars, metaVars, stampVars, seqVars, hookVars, keyVars, ctxVars, usageVars, degVars, bookVars, cxlVars, toolVars, effectsVars, everyVars>>
nonDedupVars == <<bufVars, schedVars, remVars, fuVars, sumVars, burstVars, memVars, metaVars, stampVars, seqVars, hookVars, keyVars, ctxVars, usageVars, degVars, bookVars, cxlVars, toolVars, effectsVars, everyVars>>
nonSchedVars == <<bufVars, dedupVars, remVars, fuVars, sumVars, burstVars, memVars, metaVars, stampVars, seqVars, hookVars, keyVars, ctxVars, usageVars, degVars, bookVars, cxlVars, toolVars, effectsVars, everyVars>>
nonRemVars == <<bufVars, dedupVars, schedVars, fuVars, sumVars, burstVars, memVars, metaVars, stampVars, seqVars, hookVars, keyVars, ctxVars, usageVars, degVars, bookVars, cxlVars, toolVars, effectsVars, everyVars>>
nonFuVars == <<bufVars, dedupVars, schedVars, remVars, sumVars, burstVars, memVars, metaVars, stampVars, seqVars, hookVars, keyVars, ctxVars, usageVars, degVars, bookVars, cxlVars, toolVars, effectsVars, everyVars>>
nonSumVars == <<bufVars, dedupVars, schedVars, remVars, fuVars, burstVars, memVars, metaVars, stampVars, seqVars, hookVars, keyVars, ctxVars, usageVars, degVars, bookVars, cxlVars, toolVars, effectsVars, everyVars>>
nonBurstVars == <<bufVars, dedupVars, schedVars, remVars, fuVars, sumVars, memVars, metaVars, stampVars, seqVars, hookVars, keyVars, ctxVars, usageVars, degVars, bookVars, cxlVars, toolVars, effectsVars, everyVars>>
nonMemVars == <<bufVars, dedupVars, schedVars, remVars, fuVars, sumVars, burstVars, metaVars, stampVars, seqVars, hookVars, keyVars, ctxVars, usageVars, degVars, bookVars, cxlVars, toolVars, effectsVars, everyVars>>
nonMetaVars == <<bufVars, dedupVars, schedVars, remVars, fuVars, sumVars, burstVars, memVars, stampVars, seqVars, hookVars, keyVars, ctxVars, usageVars, degVars, bookVars, cxlVars, toolVars, effectsVars, everyVars>>
nonStampVars == <<bufVars, dedupVars, schedVars, remVars, fuVars, sumVars, burstVars, memVars, metaVars, seqVars, hookVars, keyVars, ctxVars, usageVars, degVars, bookVars, cxlVars, toolVars, effectsVars, everyVars>>
nonSeqVars == <<bufVars, dedupVars, schedVars, remVars, fuVars, sumVars, burstVars, memVars, metaVars, stampVars, hookVars, keyVars, ctxVars, usageVars, degVars, bookVars, cxlVars, toolVars, effectsVars, everyVars>>
nonHookVars == <<bufVars, dedupVars, schedVars, remVars, fuVars, sumVars, burstVars, memVars, metaVars, stampVars, seqVars, keyVars, ctxVars, usageVars, degVars, bookVars, cxlVars, toolVars, effectsVars, everyVars>>
nonKeyVars == <<bufVars, dedupVars, schedVars, remVars, fuVars, sumVars, burstVars, memVars, metaVars, stampVars, seqVars, hookVars, ctxVars, usageVars, degVars, bookVars, cxlVars, toolVars, effectsVars, everyVars>>
nonCtxVars == <<bufVars, dedupVars, schedVars, remVars, fuVars, sumVars, burstVars, memVars, metaVars, stampVars, seqVars, hookVars, keyVars, usageVars, degVars, bookVars, cxlVars, toolVars, effectsVars, everyVars>>
nonUsageVars == <<bufVars, dedupVars, schedVars, remVars, fuVars, sumVars, burstVars, memVars, metaVars, stampVars, seqVars, hookVars, keyVars, ctxVars, degVars, bookVars, cxlVars, toolVars, effectsVars, everyVars>>
nonDegVars == <<bufVars, dedupVars, schedVars, remVars, fuVars, sumVars, burstVars, memVars, metaVars, stampVars, seqVars, hookVars, keyVars, ctxVars, usageVars, bookVars, cxlVars, toolVars, effectsVars, everyVars>>
nonBookVars == <<bufVars, dedupVars, schedVars, remVars, fuVars, sumVars, burstVars, memVars, metaVars, stampVars, seqVars, hookVars, keyVars, ctxVars, usageVars, degVars, cxlVars, toolVars, effectsVars, everyVars>>
nonCxlVars == <<bufVars, dedupVars, schedVars, remVars, fuVars, sumVars, burstVars, memVars, metaVars, stampVars, seqVars, hookVars, keyVars, ctxVars, usageVars, degVars, bookVars, toolVars, effectsVars, everyVars>>
nonToolVars == <<bufVars, dedupVars, schedVars, remVars, fuVars, sumVars, burstVars, memVars, metaVars, stampVars, seqVars, hookVars, keyVars, ctxVars, usageVars, degVars, bookVars, cxlVars, effectsVars, everyVars>>
nonEffectsVars == <<bufVars, dedupVars, schedVars, remVars, fuVars, sumVars, burstVars, memVars, metaVars, stampVars, seqVars, hookVars, keyVars, ctxVars, usageVars, degVars, bookVars, cxlVars, toolVars, everyVars>>
nonEveryVars == <<bufVars, dedupVars, schedVars, remVars, fuVars, sumVars, burstVars, memVars, metaVars, stampVars, seqVars, hookVars, keyVars, ctxVars, usageVars, degVars, bookVars, cxlVars, toolVars, effectsVars>>

(***************************************************************************)
(* message_buffer.py                                                       *)
(*                                                                         *)
(* Message m is received by one add_message call on instance inst[m].      *)
(* That call ends either by running _process_redis_buffer itself (max      *)
(* reached) or by creating the debounce task of m, so one position pc[m]   *)
(* describes the call and the drain it leads to:                           *)
(*   "new"      not yet received                                           *)
(*   "llen"     rpush and expire done, llen to come                        *)
(*   "sleep"    debounce task created, in asyncio.sleep                    *)
(*   "setnx"    _process_redis_buffer entered, r.set(nx) to come           *)
(*   "lrange"   gate won, r.lrange to come                                 *)
(*   "delete"   list read and non-empty, r.delete(key) to come             *)
(*   "callback" process_callback(messages) running                         *)
(*   "done"     returned;  "cancelled"  task cancelled                     *)
(***************************************************************************)
BufInit ==
    /\ redis_buffer = <<>>
    /\ redis_lock = 0
    /\ processing_tasks = [i \in Instances |-> 0]
    /\ pc = [m \in Msgs |-> "new"]
    /\ inst = [m \in Msgs |-> 0]
    /\ count = [m \in Msgs |-> 0]
    /\ batch = [m \in Msgs |-> <<>>]
    /\ flushed = <<>>
    /\ removedBy = [m \in Msgs |-> 0]
    /\ expired = {}

\* task.done() of the task of message t
TaskDone(t) == pc[t] \in {"done", "cancelled"}

\* the gate after the finally clause of a drain that is cancelled at position p:
\* the clause runs r.delete(lock_key) only when the try block was entered
LockAfterCancel(p) == IF p \in {"lrange", "delete"} THEN 0 ELSE redis_lock

\* _add_message_redis, first part: rpush + expire
AddMessage(m, i) ==
    /\ pc[m] = "new"
    /\ \A k \in Msgs : k < m => pc[k] # "new"
    /\ redis_buffer' = Append(redis_buffer, m)
    /\ inst' = [inst EXCEPT ![m] = i]
    /\ pc' = [pc EXCEPT ![m] = "llen"]
    /\ UNCHANGED <<redis_lock, processing_tasks, count, batch, flushed, removedBy, expired>>
    /\ UNCHANGED nonBufVars

\* _add_message_redis, second part: llen, cancel the existing timer, then
\* either drain at once (max reached) or start the debounce task
AddCountAndSchedule(m) ==
    /\ pc[m] = "llen"
    /\ LET i == inst[m]
           c == Len(redis_buffer)
           old == processing_tasks[i]
           hit == old # 0 /\ ~TaskDone(old)
           pc1 == IF hit THEN [pc EXCEPT ![old] = "cancelled"] ELSE pc
       IN /\ count' = [count EXCEPT ![m] = c]
          /\ redis_lock' = IF hit THEN LockAfterCancel(pc[old]) ELSE redis_lock
          /\ IF c >= max_messages
                THEN /\ pc' = [pc1 EXCEPT ![m] = "setnx"]
                     /\ UNCHANGED processing_tasks
                ELSE /\ pc' = [pc1 EXCEPT ![m] = "sleep"]
                     /\ processing_tasks' = [processing_tasks EXCEPT ![i] = m]
    /\ UNCHANGED <<redis_buffer, inst, batch, flushed, removedBy, expired>>
    /\ UNCHANGED nonBufVars

\* _delayed_redis_process: asyncio.sleep(delay) is over
TimerFires(m) ==
    /\ pc[m] = "sleep"
    /\ pc' = [pc EXCEPT ![m] = "setnx"]
    /\ UNCHANGED <<redis_buffer, redis_lock, processing_tasks, inst, count, batch,
                   flushed, removedBy, expired>>
    /\ UNCHANGED nonBufVars

\* _process_redis_buffer: r.set(lock_key, "1", nx=True, ex=30)
AcquireLock(m) ==
    /\ pc[m] = "setnx"
    /\ IF redis_lock = 0
          THEN /\ redis_lock' = m
               /\ pc' = [pc EXCEPT ![m] = "lrange"]
          ELSE /\ pc' = [pc EXCEPT ![m] = "done"]
               /\ UNCHANGED redis_lock
    /\ UNCHANGED <<redis_buffer, processing_tasks, inst, count, batch, flushed,
                   removedBy, expired>>
    /\ UNCHANGED nonBufVars

\* _process_redis_buffer: r.lrange(key, 0, -1); an empty list returns through
\* the finally clause, which deletes the gate
ReadBuffer(m) ==
    /\ pc[m] = "lrange"
    /\ batch' = [batch EXCEPT ![m] = redis_buffer]
    /\ IF redis_buffer = <<>>
          THEN /\ pc' = [pc EXCEPT ![m] = "done"]
               /\ redis_lock' = 0
          ELSE /\ pc' = [pc EXCEPT ![m] = "delete"]
               /\ UNCHANGED redis_lock
    /\ UNCHANGED <<redis_buffer, processing_tasks, inst, count, flushed, removedBy, expired>>
    /\ UNCHANGED nonBufVars

\* _process_redis_buffer: r.delete(key), parse, drop the task reference and
\* call the callback with the messages read by lrange
ClearBuffer(m) ==
    /\ pc[m] = "delete"
    /\ removedBy' = [x \in Msgs |-> IF x \in Range(redis_buffer) THEN m ELSE removedBy[x]]
    /\ redis_buffer' = <<>>
    /\ processing_tasks' = [processing_tasks EXCEPT ![inst[m]] = 0]
    /\ flushed' = Append(flushed, batch[m])
    /\ pc' = [pc EXCEPT ![m] = "callback"]
    /\ UNCHANGED <<redis_lock, inst, count, batch, expired>>
    /\ UNCHANGED nonBufVars

\* the callback returns; finally: r.delete(lock_key)
CallbackReturns(m) ==
    /\ pc[m] = "callback"
    /\ redis_lock' = 0
    /\ pc' = [pc EXCEPT ![m] = "done"]
    /\ UNCHANGED <<redis_buffer, processing_tasks, inst, count, batch, flushed,
                   removedBy, expired>>
    /\ UNCHANGED nonBufVars

\* the 30 s expiry of the gate (ex=30) passes while the gate is set
LockExpires ==
    /\ redis_lock # 0
    /\ redis_lock' = 0
    /\ UNCHANGED <<redis_buffer, processing_tasks, pc, inst, count, batch, flushed,
                   removedBy, expired>>
    /\ UNCHANGED nonBufVars

\* no add_message call and no drain is left that could still touch the list
BufQuiescent == \A m \in Msgs : pc[m] \in {"done", "cancelled"}

\* r.expire(key, debounce_seconds + 60): the list expires 60 s after the last
\* debounce period has ended, so every call and timer has finished by then
BufferExpires ==
    /\ redis_buffer # <<>>
    /\ \A m \in Msgs : pc[m] \in {"new", "callback", "done", "cancelled"}
    /\ expired' = expired \cup Range(redis_buffer)
    /\ redis_buffer' = <<>>
    /\ UNCHANGED <<redis_lock, processing_tasks, pc, inst, count, batch, flushed, removedBy>>
    /\ UNCHANGED nonBufVars

BufNext ==
    \/ \E m \in Msgs, i \in Instances : AddMessage(m, i)
    \/ \E m \in Msgs : AddCountAndSchedule(m)
    \/ \E m \in Msgs : TimerFires(m)
    \/ \E m \in Msgs : AcquireLock(m)
    \/ \E m \in Msgs : ReadBuffer(m)
    \/ \E m \in Msgs : ClearBuffer(m)
    \/ \E m \in Msgs : CallbackReturns(m)
    \/ LockExpires
    \/ BufferExpires


(***************************************************************************)
(* message_processing.py is_duplicate, called by receive_webhook and       *)
(* receive_wasender_webhook.                                               *)
(*                                                                         *)
(* is_duplicate is a synchronous function: on one instance (one event      *)
(* loop) its statements run without interleaving, while other instances    *)
(* reach the database between its SELECT and its INSERT.                   *)
(*   rpc: "new", "insert" (SELECT found nothing), "duplicate" (returned    *)
(*   True, the router answers duplicate), "dispatched" (returned False,    *)
(*   the router created the handler task)                                  *)
(***************************************************************************)
DedupInit ==
    /\ processed_messages = {}
    /\ rpc = [r \in Reqs |-> "new"]
    /\ rinst = [r \in Reqs |-> 0]
    /\ rid = [r \in Reqs |-> 0]
    /\ rat = [r \in Reqs |-> 0]
    /\ dispatched = {}
    /\ dnow = 0

\* the message ids present in the table
ProcessedIds == {row.message_id : row \in processed_messages}

\* _cleanup_old_entries: delete the rows with processed_at < utcnow() - TTL
CleanupOldEntries(rows) == {row \in rows : ~(row.processed_at < dnow - DEDUP_TTL_MINUTES)}

\* is_duplicate, up to the SELECT: an existing row returns True
IsDuplicateQuery(r, i, id) ==
    /\ rpc[r] = "new"
    /\ \A k \in Reqs : k < r => rpc[k] # "new"
    /\ \A k \in Reqs : rinst[k] = i => rpc[k] # "insert"
    /\ rinst' = [rinst EXCEPT ![r] = i]
    /\ rid' = [rid EXCEPT ![r] = id]
    /\ rat' = [rat EXCEPT ![r] = dnow]
    /\ rpc' = [rpc EXCEPT ![r] = IF id \in ProcessedIds THEN "duplicate" ELSE "insert"]
    /\ UNCHANGED <<processed_messages, dispatched, dnow>>
    /\ UNCHANGED nonDedupVars

\* the table after db.add(ProcessedMessage(message_id)) + db.commit() and the
\* occasional cleanup; a commit that violates the unique index on message_id
\* raises, is caught by "except Exception" and changes nothing
InsertProcessed(id) ==
    IF id \in ProcessedIds
       THEN processed_messages
       ELSE LET added == processed_messages \cup {[message_id |-> id, processed_at |-> dnow]}
            IN IF id % 10 = 0 THEN CleanupOldEntries(added) ELSE added

\* is_duplicate, from the INSERT on: both the successful insert and the caught
\* exception return False, and the router creates the handler task
IsDuplicateInsert(r) ==
    /\ rpc[r] = "insert"
    /\ processed_messages' = InsertProcessed(rid[r])
    /\ rpc' = [rpc EXCEPT ![r] = "dispatched"]
    /\ dispatched' = dispatched \cup {r}
    /\ UNCHANGED <<rinst, rid, rat, dnow>>
    /\ UNCHANGED nonDedupVars

\* is_duplicate when the database raises for another reason (connection lost,
\* timeout) in the INSERT's commit: "except Exception" logs and returns False,
\* nothing is recorded and the router creates the handler task
IsDuplicateDbError(r) ==
    /\ rpc[r] = "insert"
    /\ rpc' = [rpc EXCEPT ![r] = "dispatched"]
    /\ dispatched' = dispatched \cup {r}
    /\ UNCHANGED <<processed_messages, rinst, rid, rat, dnow>>
    /\ UNCHANGED nonDedupVars

\* a minute passes
DedupTick ==
    /\ dnow < MaxClock
    /\ dnow' = dnow + 1
    /\ UNCHANGED <<processed_messages, rpc, rinst, rid, rat, dispatched>>
    /\ UNCHANGED nonDedupVars

DedupNext ==
    \/ \E r \in Reqs, i \in Instances, id \in MessageIds : IsDuplicateQuery(r, i, id)
    \/ \E r \in Reqs : IsDuplicateInsert(r)
    \/ \E r \in Reqs : IsDuplicateDbError(r)
    \/ DedupTick


(***************************************************************************)
(* scheduler.py                                                            *)
(*                                                                         *)
(* Time is counted in units of CHECK_INTERVAL.  spc[i]:                    *)
(*   "off"    start_scheduler not running on instance i                    *)
(*   "tick"   at the top of the loop, _acquire_scheduler_lock to come      *)
(*   "cycle"  inside _process_cycle                                        *)
(*   "sleep"  in asyncio.sleep(CHECK_INTERVAL) until wake[i]               *)
(***************************************************************************)
NoLock == [owner |-> 0, expires |-> 0]

\* nothing is due
NoDue == [at |-> 0 - 1, acted |-> FALSE]

\* LOCK_DURATION in clock units
LockTicks == LOCK_DURATION \div CHECK_INTERVAL

SchedInit ==
    /\ snow = 0
    /\ scheduler_lock = NoLock
    /\ spc = [i \in Instances |-> "off"]
    /\ wake = [i \in Instances |-> 0]
    /\ running = [i \in Instances |-> FALSE]
    /\ store_up = TRUE
    /\ store_was_down = FALSE
    /\ due = NoDue
    /\ cycle_error = [i \in Instances |-> FALSE]

\* the key exists: it was set and its EX time has not passed
SchedulerLockSet == scheduler_lock.owner # 0 /\ scheduler_lock.expires > snow

\* lifespan: asyncio.create_task(scheduler.start_scheduler())
StartScheduler(i) ==
    /\ spc[i] = "off"
    /\ running' = [running EXCEPT ![i] = TRUE]
    /\ spc' = [spc EXCEPT ![i] = "tick"]
    /\ cycle_error' = [cycle_error EXCEPT ![i] = FALSE]
    /\ UNCHANGED <<snow, scheduler_lock, wake, store_up, store_was_down, due>>
    /\ UNCHANGED nonSchedVars

\* _acquire_scheduler_lock: True without Redis or on a Redis error,
\* otherwise the result of SET scheduler:lock NX EX LOCK_DURATION
AcquireSchedulerLock(i) ==
    /\ spc[i] = "tick"
    /\ IF ~store_up
          THEN /\ spc' = [spc EXCEPT ![i] = "cycle"]
               /\ UNCHANGED <<scheduler_lock, wake>>
          ELSE IF SchedulerLockSet
                  THEN /\ spc' = [spc EXCEPT ![i] = "sleep"]
                       /\ wake' = [wake EXCEPT ![i] = snow + 1]
                       /\ UNCHANGED scheduler_lock
                  ELSE /\ scheduler_lock' = [owner |-> i, expires |-> snow + LockTicks]
                       /\ spc' = [spc EXCEPT ![i] = "cycle"]
                       /\ UNCHANGED wake
    /\ due' = IF spc'[i] = "cycle" /\ due # NoDue THEN [due EXCEPT !.acted = TRUE] ELSE due
    /\ UNCHANGED <<snow, running, store_up, store_was_down, cycle_error>>
    /\ UNCHANGED nonSchedVars

\* _process_cycle returns; the lock is left to expire and the loop sleeps one
\* interval
EndCycle(i) ==
    /\ spc[i] = "cycle"
    /\ spc' = [spc EXCEPT ![i] = "sleep"]
    /\ wake' = [wake EXCEPT ![i] = snow + 1]
    /\ UNCHANGED <<snow, scheduler_lock, running, store_up, store_was_down, due, cycle_error>>
    /\ UNCHANGED nonSchedVars

\* a loop without the try/except around the cycle: the exception ends the
\* task of start_scheduler
CycleRaisesEndsLoop(i) ==
    /\ spc[i] = "cycle"
    /\ cycle_error' = [cycle_error EXCEPT ![i] = TRUE]
    /\ spc' = [spc EXCEPT ![i] = "off"]
    /\ UNCHANGED <<snow, scheduler_lock, wake, running, store_up, store_was_down, due>>
    /\ UNCHANGED nonSchedVars

\* a step of _process_cycle raises: "except Exception" logs "cycle error" and
\* the loop goes on to asyncio.sleep(CHECK_INTERVAL)
CycleRaises(i) ==
    /\ spc[i] = "cycle"
    /\ cycle_error' = [cycle_error EXCEPT ![i] = TRUE]
    /\ spc' = [spc EXCEPT ![i] = "sleep"]
    /\ wake' = [wake EXCEPT ![i] = snow + 1]
    /\ UNCHANGED <<snow, scheduler_lock, running, store_up, store_was_down, due>>
    /\ UNCHANGED nonSchedVars

\* the sleep is over: "while _running" is evaluated again
WakeUp(i) ==
    /\ spc[i] = "sleep"
    /\ wake[i] <= snow
    /\ spc' = [spc EXCEPT ![i] = IF running[i] THEN "tick" ELSE "off"]
    /\ UNCHANGED <<snow, scheduler_lock, wake, running, store_up, store_was_down, due, cycle_error>>
    /\ UNCHANGED nonSchedVars

\* lifespan shutdown: stop_scheduler (which calls _release_scheduler_lock:
\* r.delete("scheduler:lock")) followed by scheduler_task.cancel()
StopScheduler(i) ==
    /\ spc[i] # "off"
    /\ running' = [running EXCEPT ![i] = FALSE]
    /\ scheduler_lock' = IF store_up THEN NoLock ELSE scheduler_lock
    /\ spc' = [spc EXCEPT ![i] = "off"]
    /\ due' = IF \A k \in Instances \ {i} : spc[k] = "off" THEN NoDue ELSE due
    /\ UNCHANGED <<snow, wake, store_up, store_was_down, cycle_error>>
    /\ UNCHANGED nonSchedVars

\* one CHECK_INTERVAL passes; a loop whose sleep is over runs first
SchedTick ==
    /\ snow < MaxTime
    /\ \A i \in Instances : spc[i] # "tick" /\ (spc[i] = "sleep" => wake[i] > snow)
    /\ snow' = snow + 1
    /\ UNCHANGED <<scheduler_lock, spc, wake, running, store_up, store_was_down, due, cycle_error>>
    /\ UNCHANGED nonSchedVars

\* Redis stops answering / answers again
StoreFails ==
    /\ store_up
    /\ store_up' = FALSE
    /\ store_was_down' = TRUE
    /\ UNCHANGED <<snow, scheduler_lock, spc, wake, running, due, cycle_error>>
    /\ UNCHANGED nonSchedVars

StoreRecovers ==
    /\ ~store_up
    /\ store_up' = TRUE
    /\ UNCHANGED <<snow, scheduler_lock, spc, wake, running, store_was_down, due, cycle_error>>
    /\ UNCHANGED nonSchedVars

\* a reminder's scheduled_for passes, a conversation has been idle for the
\* summary delay or a follow-up's scheduled_for passes, while a loop is running
\* and no cycle is in progress; followed while the store has always answered
BecomesDue ==
    /\ due = NoDue
    /\ ~store_was_down
    /\ \E i \in Instances : spc[i] # "off"
    /\ \A i \in Instances : spc[i] # "cycle"
    /\ due' = [at |-> snow, acted |-> FALSE]
    /\ UNCHANGED <<snow, scheduler_lock, spc, wake, running, store_up, store_was_down,
                   cycle_error>>
    /\ UNCHANGED nonSchedVars

SchedNext ==
    \/ \E i \in Instances : StartScheduler(i)
    \/ \E i \in Instances : AcquireSchedulerLock(i)
    \/ \E i \in Instances : EndCycle(i)
    \/ \E i \in Instances : CycleRaises(i)
    \/ \E i \in Instances : WakeUp(i)
    \/ \E i \in Instances : StopScheduler(i)
    \/ SchedTick
    \/ StoreFails
    \/ StoreRecovers
    \/ BecomesDue


(***************************************************************************)
(* reminders.py and the appointment operations of appointments.py.         *)
(*                                                                         *)
(* appointments[a].status is "none" before the booking, then the column    *)
(* Appointment.status.  appointments[a].op is the tool call in progress    *)
(* on the appointment, at most one at a time:                              *)
(*   "book"        inserted, create_reminders_for_appointment to come      *)
(*   "reschedule"  old reminders cancelled, update + re-creation to come   *)
(*   "cancel"      reminders cancelled, status update to come              *)
(* An execution e of process_pending_reminders is at                       *)
(*   "idle", "fetch" (top of while True), "claim" (top of the for loop),   *)
(*   "send" (send_reminder on the head of elist[e]).                       *)
(***************************************************************************)
RemInit ==
    /\ appointments = [a \in Apts |-> [status |-> "none", op |-> "idle"]]
    /\ reminders = <<>>
    /\ epc = [e \in Execs |-> "idle"]
    /\ elist = [e \in Execs |-> <<>>]
    /\ edue = [e \in Execs |-> {}]
    /\ provider_sends = [r \in 1..MaxRows |-> 0]
    /\ ever_sent = {}
    /\ reschedules = [a \in Apts |-> 0]

RowIds == 1..Len(reminders)

\* create_reminders_for_appointment without 'rule_index=idx': every row keeps
\* the column default 0
CreateRemindersDefaultIndex(rows, a, S) ==
    rows \o [k \in 1..Cardinality(S) |->
                [appointment_id |-> a, rule_index |-> 0, status |-> "pending", due |-> FALSE]]

\* the new rows of create_reminders_for_appointment: one per rule whose time
\* has not passed (the rule indexes in S), in the order of the rules
RECURSIVE NewReminders(_, _, _)
NewReminders(a, S, idx) ==
    IF idx >= NRules THEN <<>>
    ELSE (IF idx \in S
             THEN <<[appointment_id |-> a, rule_index |-> idx,
                     status |-> "pending", due |-> FALSE]>>
             ELSE <<>>) \o NewReminders(a, S, idx + 1)

\* create_reminders_for_appointment
CreateRemindersForAppointment(rows, a, S) == rows \o NewReminders(a, S, 0)

\* cancel_reminders_for_appointment: UPDATE ... WHERE appointment_id AND status = pending
CancelRemindersForAppointment(rows, a) ==
    [k \in 1..Len(rows) |->
        IF rows[k].appointment_id = a /\ rows[k].status = "pending"
           THEN [rows[k] EXCEPT !.status = "cancelled"]
           ELSE rows[k]]

\* book_appointment up to the insert of the appointment
BookAppointment(a) ==
    /\ appointments[a].status = "none"
    /\ \A b \in Apts : b < a => appointments[b].status # "none"
    /\ appointments' = [appointments EXCEPT ![a] = [status |-> "scheduled", op |-> "book"]]
    /\ UNCHANGED <<reminders, epc, elist, edue, provider_sends, ever_sent, reschedules>>
    /\ UNCHANGED nonRemVars

\* book_appointment after the webhook: create_reminders_for_appointment
BookCreateReminders(a, S) ==
    /\ appointments[a].op = "book"
    /\ Len(reminders) + Cardinality(S) <= MaxRows
    /\ reminders' = CreateRemindersForAppointment(reminders, a, S)
    /\ appointments' = [appointments EXCEPT ![a].op = "idle"]
    /\ UNCHANGED <<epc, elist, edue, provider_sends, ever_sent, reschedules>>
    /\ UNCHANGED nonRemVars

\* reschedule_appointment up to the calendar update: no conflict, old
\* reminders cancelled
RescheduleCancelOld(a) ==
    /\ appointments[a].status # "none"
    /\ reschedules[a] < MaxResched
    /\ appointments[a].op = "idle"
    /\ reminders' = CancelRemindersForAppointment(reminders, a)
    /\ appointments' = [appointments EXCEPT ![a].op = "reschedule"]
    /\ UNCHANGED <<epc, elist, edue, provider_sends, ever_sent, reschedules>>
    /\ UNCHANGED nonRemVars

\* reschedule_appointment: new times committed, reminders created again
RescheduleCreateNew(a, S) ==
    /\ appointments[a].op = "reschedule"
    /\ Len(reminders) + Cardinality(S) <= MaxRows
    /\ reminders' = CreateRemindersForAppointment(reminders, a, S)
    /\ appointments' = [appointments EXCEPT ![a].op = "idle"]
    /\ reschedules' = [reschedules EXCEPT ![a] = @ + 1]
    /\ UNCHANGED <<epc, elist, edue, provider_sends, ever_sent>>
    /\ UNCHANGED nonRemVars

\* cancel_appointment: cancel_reminders_for_appointment
CancelAppointmentReminders(a) ==
    /\ appointments[a].status # "none"
    /\ appointments[a].op = "idle"
    /\ reminders' = CancelRemindersForAppointment(reminders, a)
    /\ appointments' = [appointments EXCEPT ![a].op = "cancel"]
    /\ UNCHANGED <<epc, elist, edue, provider_sends, ever_sent, reschedules>>
    /\ UNCHANGED nonRemVars

\* cancel_appointment: appointment.status = "cancelled"; commit
CancelAppointmentStatus(a) ==
    /\ appointments[a].op = "cancel"
    /\ appointments' = [appointments EXCEPT ![a] = [status |-> "cancelled", op |-> "idle"]]
    /\ UNCHANGED <<reminders, epc, elist, edue, provider_sends, ever_sent, reschedules>>
    /\ UNCHANGED nonRemVars

\* the scheduled_for time of a row passes
ReminderBecomesDue(r) ==
    /\ r \in RowIds
    /\ ~reminders[r].due
    /\ reminders' = [reminders EXCEPT ![r].due = TRUE]
    /\ UNCHANGED <<appointments, epc, elist, edue, provider_sends, ever_sent, reschedules>>
    /\ UNCHANGED nonRemVars

\* the row ids of s in increasing order
RECURSIVE SortedSeq(_)
SortedSeq(S) ==
    IF S = {} THEN <<>>
    ELSE LET lo == CHOOSE x \in S : \A y \in S : x <= y
         IN <<lo>> \o SortedSeq(S \ {lo})

\* process_pending_reminders is entered: now = datetime.utcnow()
StartProcessReminders(e) ==
    /\ epc[e] = "idle"
    /\ edue' = [edue EXCEPT ![e] = {r \in RowIds : reminders[r].due}]
    /\ epc' = [epc EXCEPT ![e] = "fetch"]
    /\ UNCHANGED <<appointments, reminders, elist, provider_sends, ever_sent, reschedules>>
    /\ UNCHANGED nonRemVars

\* the rows the query of process_pending_reminders returns
PendingDue(e) == {r \in RowIds : reminders[r].status = "pending" /\ r \in edue[e]}

\* top of the loop: the query for pending due rows; none ends the execution
FetchPendingReminders(e) ==
    /\ epc[e] = "fetch"
    /\ elist' = [elist EXCEPT ![e] = SortedSeq(PendingDue(e))]
    /\ epc' = [epc EXCEPT ![e] = IF PendingDue(e) = {} THEN "idle" ELSE "claim"]
    /\ UNCHANGED <<appointments, reminders, edue, provider_sends, ever_sent, reschedules>>
    /\ UNCHANGED nonRemVars

\* the row after 'reminder.status = "processing"; db.commit()': an UPDATE by
\* primary key, whatever the status of the row is by now
MarkProcessing(rows, r) == [rows EXCEPT ![r].status = "processing"]

\* for reminder in pending: mark as processing
ClaimReminder(e) ==
    /\ epc[e] = "claim"
    /\ reminders' = MarkProcessing(reminders, Head(elist[e]))
    /\ epc' = [epc EXCEPT ![e] = "send"]
    /\ UNCHANGED <<appointments, elist, edue, provider_sends, ever_sent, reschedules>>
    /\ UNCHANGED nonRemVars

\* send_reminder on the head of the list; ok is the outcome of
\* _send_to_customer.  An appointment that is not scheduled cancels the row
\* without a send.
SendReminder(e, ok) ==
    /\ epc[e] = "send"
    /\ LET r == Head(elist[e])
           a == reminders[r].appointment_id
           live == appointments[a].status = "scheduled"
           st == IF ~live THEN "cancelled" ELSE IF ok THEN "sent" ELSE "failed"
       IN /\ reminders' = [reminders EXCEPT ![r].status = st]
          /\ provider_sends' = IF live THEN [provider_sends EXCEPT ![r] = @ + 1]
                                       ELSE provider_sends
          /\ ever_sent' = IF st = "sent" THEN ever_sent \cup {r} ELSE ever_sent
    /\ elist' = [elist EXCEPT ![e] = Tail(@)]
    /\ epc' = [epc EXCEPT ![e] = IF Len(elist[e]) = 1 THEN "fetch" ELSE "claim"]
    /\ UNCHANGED <<appointments, edue, reschedules>>
    /\ UNCHANGED nonRemVars

RemNext ==
    \/ \E a \in Apts : BookAppointment(a)
    \/ \E a \in Apts, S \in SUBSET RuleIdx : BookCreateReminders(a, S)
    \/ \E a \in Apts : RescheduleCancelOld(a)
    \/ \E a \in Apts, S \in SUBSET RuleIdx : RescheduleCreateNew(a, S)
    \/ \E a \in Apts : CancelAppointmentReminders(a)
    \/ \E a \in Apts : CancelAppointmentStatus(a)
    \/ \E r \in 1..MaxRows : ReminderBecomesDue(r)
    \/ \E e \in Execs : StartProcessReminders(e)
    \/ \E e \in Execs : FetchPendingReminders(e)
    \/ \E e \in Execs : ClaimReminder(e)
    \/ \E e \in Execs, ok \in BOOLEAN : SendReminder(e, ok)


(***************************************************************************)
(* followups.py and process_batched_messages of message_processing.py,     *)
(* for one conversation.                                                   *)
(*                                                                         *)
(* process_pending_followups is at "idle", "mark" (rows fetched, about to  *)
(* be marked evaluating) or "gather" (waiting for the _run tasks).         *)
(* The _run task of a row is at "none", "run" (created), "evaluate"        *)
(* (_process_single passed its checks and awaits the evaluator), "done".   *)
(* A batch is at "new", "ai" (awaiting ai.get_response), "reply" (about to *)
(* save and send the response text) or "done".                             *)
(***************************************************************************)
FuInit ==
    /\ followups = <<>>
    /\ fu_enabled = TRUE
    /\ conv = [is_paused |-> FALSE, opted_out |-> FALSE, last_customer_message_at |-> 0]
    /\ last_role = "none"
    /\ fnow = 0
    /\ fupc = "idle"
    /\ fulist = {}
    /\ tpc = [r \in FuIds |-> "none"]
    /\ bpc = [b \in Batches |-> "new"]
    /\ cancel_seen = {}
    /\ sent_after_inbound = {}
    /\ reply_while_flagged = FALSE
    /\ followup_while_flagged = FALSE

FuRowIds == 1..Len(followups)

\* the rows with status pending or evaluating
OpenFollowups(rows) == {r \in 1..Len(rows) : rows[r].status \in {"pending", "evaluating"}}

\* cancel_pending_followups: UPDATE ... SET status = cancelled
\* WHERE conversation_id AND status IN (pending, evaluating)
CancelPendingFollowups(rows) ==
    [r \in 1..Len(rows) |->
        IF r \in OpenFollowups(rows) THEN [rows[r] EXCEPT !.status = "cancelled"] ELSE rows[r]]

\* _scan_agent + _schedule_followup: a row for the conversation when it is
\* eligible
ScheduleFollowup ==
    /\ fu_enabled
    /\ ~conv.opted_out /\ ~conv.is_paused
    /\ conv.last_customer_message_at # 0
    /\ OpenFollowups(followups) = {}
    /\ last_role = "assistant"
    /\ Len(followups) < MaxFu
    /\ fnow < MaxFuClock
    /\ fnow' = fnow + 1
    /\ followups' = Append(followups, [status |-> "pending", created_at |-> fnow + 1,
                                       due |-> FALSE])
    /\ UNCHANGED <<fu_enabled, conv, last_role, fupc, fulist, tpc, bpc, cancel_seen,
                   sent_after_inbound, reply_while_flagged, followup_while_flagged>>
    /\ UNCHANGED nonFuVars

\* the scheduled_for time of a row passes
FollowupBecomesDue(r) ==
    /\ r \in FuRowIds
    /\ ~followups[r].due
    /\ followups' = [followups EXCEPT ![r].due = TRUE]
    /\ UNCHANGED <<fu_enabled, conv, last_role, fnow, fupc, fulist, tpc, bpc, cancel_seen,
                   sent_after_inbound, reply_while_flagged, followup_while_flagged>>
    /\ UNCHANGED nonFuVars

\* process_pending_followups: the query for pending due rows
FetchPendingFollowups ==
    /\ fupc = "idle"
    /\ LET pending == {r \in FuRowIds : followups[r].status = "pending" /\ followups[r].due}
       IN /\ pending # {}
          /\ fulist' = pending
    /\ fupc' = "mark"
    /\ UNCHANGED <<followups, fu_enabled, conv, last_role, fnow, tpc, bpc, cancel_seen,
                   sent_after_inbound, reply_while_flagged, followup_while_flagged>>
    /\ UNCHANGED nonFuVars

\* for fu in pending: fu.status = EVALUATING; db.commit(); the tasks are created
MarkEvaluating ==
    /\ fupc = "mark"
    /\ followups' = [r \in FuRowIds |->
                        IF r \in fulist THEN [followups[r] EXCEPT !.status = "evaluating"]
                        ELSE followups[r]]
    /\ tpc' = [r \in FuIds |-> IF r \in fulist THEN "run" ELSE tpc[r]]
    /\ fupc' = "gather"
    /\ UNCHANGED <<fu_enabled, conv, last_role, fnow, fulist, bpc, cancel_seen,
                   sent_after_inbound, reply_while_flagged, followup_while_flagged>>
    /\ UNCHANGED nonFuVars

\* asyncio.gather returns: all tasks of the batch are over
GatherReturns ==
    /\ fupc = "gather"
    /\ \A r \in fulist : tpc[r] = "done"
    /\ fupc' = "idle"
    /\ fulist' = {}
    /\ UNCHANGED <<followups, fu_enabled, conv, last_role, fnow, tpc, bpc, cancel_seen,
                   sent_after_inbound, reply_while_flagged, followup_while_flagged>>
    /\ UNCHANGED nonFuVars

\* _run + _process_single up to the evaluator call: the safety re-checks
ProcessSingleChecks(r) ==
    /\ tpc[r] = "run"
    /\ IF conv.opted_out \/ conv.is_paused
          \/ conv.last_customer_message_at > followups[r].created_at
       THEN /\ followups' = [followups EXCEPT ![r].status = "cancelled"]
            /\ tpc' = [tpc EXCEPT ![r] = "done"]
       ELSE /\ tpc' = [tpc EXCEPT ![r] = "evaluate"]
            /\ UNCHANGED followups
    /\ UNCHANGED <<fu_enabled, conv, last_role, fnow, fupc, fulist, bpc, cancel_seen,
                   sent_after_inbound, reply_while_flagged, followup_while_flagged>>
    /\ UNCHANGED nonFuVars

\* _process_single after the evaluator: skip, or send and mark sent; a failed
\* send or an exception marks the row skipped
ProcessSingleDecision(r, send, ok) ==
    /\ tpc[r] = "evaluate"
    /\ IF send /\ ok
       THEN /\ followups' = [followups EXCEPT ![r].status = "sent"]
            /\ last_role' = "assistant"
            /\ followup_while_flagged' =
                   (followup_while_flagged \/ conv.is_paused \/ conv.opted_out)
            /\ sent_after_inbound' =
                   IF conv.last_customer_message_at > followups[r].created_at
                      THEN sent_after_inbound \cup {r} ELSE sent_after_inbound
       ELSE /\ followups' = [followups EXCEPT ![r].status = "skipped"]
            /\ UNCHANGED <<last_role, followup_while_flagged, sent_after_inbound>>
    /\ tpc' = [tpc EXCEPT ![r] = "done"]
    /\ UNCHANGED <<fu_enabled, conv, fnow, fupc, fulist, bpc, cancel_seen,
                   reply_while_flagged>>
    /\ UNCHANGED nonFuVars

\* _run when _process_single or its commit raises: rollback, then the row is
\* loaded again, set to skipped and committed; recovered = FALSE: that second
\* attempt raises as well ("except Exception: local_db.rollback()") and the
\* row keeps the status it has in the table
ProcessSingleRaises(r, recovered) ==
    /\ tpc[r] = "evaluate"
    /\ followups' = IF recovered THEN [followups EXCEPT ![r].status = "skipped"]
                                ELSE followups
    /\ tpc' = [tpc EXCEPT ![r] = "done"]
    /\ UNCHANGED <<fu_enabled, conv, last_role, fnow, fupc, fulist, bpc, cancel_seen,
                   sent_after_inbound, reply_while_flagged, followup_while_flagged>>
    /\ UNCHANGED nonFuVars

\* process_batched_messages up to the AI call, without the auto opt-in of
\* lines 119-121
ProcessBatchStartKeepsOptOut(b) ==
    /\ bpc[b] = "new"
    /\ \A c \in Batches : c < b => bpc[c] # "new"
    /\ fnow < MaxFuClock
    /\ fnow' = fnow + 1
    /\ conv' = [conv EXCEPT !.last_customer_message_at = fnow + 1]
    /\ followups' = CancelPendingFollowups(followups)
    /\ cancel_seen' = cancel_seen \cup OpenFollowups(followups)
    /\ last_role' = "user"
    /\ bpc' = [bpc EXCEPT ![b] = IF conv.is_paused THEN "done" ELSE "ai"]
    /\ UNCHANGED <<fu_enabled, fupc, fulist, tpc, sent_after_inbound,
                   reply_while_flagged, followup_while_flagged>>
    /\ UNCHANGED nonFuVars

\* process_batched_messages up to the AI call: auto opt-in, last customer
\* message time, cancel_pending_followups, then the is_paused check; the
\* customer's messages are saved on either branch
ProcessBatchStart(b) ==
    /\ bpc[b] = "new"
    /\ \A c \in Batches : c < b => bpc[c] # "new"
    /\ fnow < MaxFuClock
    /\ fnow' = fnow + 1
    /\ conv' = [conv EXCEPT !.opted_out = FALSE, !.last_customer_message_at = fnow + 1]
    /\ followups' = CancelPendingFollowups(followups)
    /\ cancel_seen' = cancel_seen \cup OpenFollowups(followups)
    /\ last_role' = "user"
    /\ bpc' = [bpc EXCEPT ![b] = IF conv.is_paused THEN "done" ELSE "ai"]
    /\ UNCHANGED <<fu_enabled, fupc, fulist, tpc, sent_after_inbound,
                   reply_while_flagged, followup_while_flagged>>
    /\ UNCHANGED nonFuVars

\* conversations.set_opted_out(db, conversation_id, True), called by
\* _handle_opt_out: the conversation row with opted_out set
SetOptedOut(c) == [c EXCEPT !.opted_out = TRUE]

\* ai.get_response returns; optout: the model called opt_out_conversation;
\* text: the response has text
AiResponds(b, optout, text) ==
    /\ bpc[b] = "ai"
    /\ conv' = IF optout THEN SetOptedOut(conv) ELSE conv
    /\ bpc' = [bpc EXCEPT ![b] = IF text THEN "reply" ELSE "done"]
    /\ UNCHANGED <<followups, fu_enabled, last_role, fnow, fupc, fulist, tpc, cancel_seen,
                   sent_after_inbound, reply_while_flagged, followup_while_flagged>>
    /\ UNCHANGED nonFuVars

\* messages.add(assistant); db.commit(); send_message
SendReply(b) ==
    /\ bpc[b] = "reply"
    /\ last_role' = "assistant"
    /\ reply_while_flagged' = (reply_while_flagged \/ conv.is_paused \/ conv.opted_out)
    /\ bpc' = [bpc EXCEPT ![b] = "done"]
    /\ UNCHANGED <<followups, fu_enabled, conv, fnow, fupc, fulist, tpc, cancel_seen,
                   sent_after_inbound, followup_while_flagged>>
    /\ UNCHANGED nonFuVars

\* conversations.set_paused
SetPaused(paused) ==
    /\ conv.is_paused # paused
    /\ conv' = [conv EXCEPT !.is_paused = paused]
    /\ UNCHANGED <<followups, fu_enabled, last_role, fnow, fupc, fulist, tpc, bpc,
                   cancel_seen, sent_after_inbound, reply_while_flagged,
                   followup_while_flagged>>
    /\ UNCHANGED nonFuVars

\* update of the follow-up config: disabling cancels the pending and
\* evaluating rows of the agent
UpdateFollowupConfig(enabled) ==
    /\ fu_enabled # enabled
    /\ fu_enabled' = enabled
    /\ followups' = IF ~enabled THEN CancelPendingFollowups(followups) ELSE followups
    /\ UNCHANGED <<conv, last_role, fnow, fupc, fulist, tpc, bpc, cancel_seen,
                   sent_after_inbound, reply_while_flagged, followup_while_flagged>>
    /\ UNCHANGED nonFuVars

FuNext ==
    \/ ScheduleFollowup
    \/ \E r \in FuIds : FollowupBecomesDue(r)
    \/ FetchPendingFollowups
    \/ MarkEvaluating
    \/ GatherReturns
    \/ \E r \in FuIds : ProcessSingleChecks(r)
    \/ \E r \in FuIds, send \in BOOLEAN, ok \in BOOLEAN : ProcessSingleDecision(r, send, ok)
    \/ \E r \in FuIds, recovered \in BOOLEAN : ProcessSingleRaises(r, recovered)
    \/ \E b \in Batches : ProcessBatchStart(b)
    \/ \E b \in Batches, optout \in BOOLEAN, text \in BOOLEAN : AiResponds(b, optout, text)
    \/ \E b \in Batches : SendReply(b)
    \/ \E paused \in BOOLEAN : SetPaused(paused)
    \/ \E enabled \in BOOLEAN : UpdateFollowupConfig(enabled)


(***************************************************************************)
(* Conversation summaries of one conversation: the scheduler path          *)
(* (process_pending_summaries -> create_and_send_summary) and the inline   *)
(* path of the appointment webhook (_generate_appointment_summary).        *)
(*                                                                         *)
(* A summary task is at                                                    *)
(*   "idle"                                                                *)
(*   "selected"   scheduler: the conversation is in the candidate list     *)
(*   "generate"   scheduler: key read, no existing row seen, awaiting AI   *)
(*   "insert"     scheduler: summary text ready, row about to be committed *)
(*   "agenerate"  appointment: awaiting AI                                 *)
(*   "ainsert"    appointment: key read, row about to be committed         *)
(* sumkey[t] is the task's local last_user_msg_time, NoUserMsg outside its *)
(* scope.                                                                  *)
(***************************************************************************)
\* the value of max(created_at) over no rows: NULL
NoUserMsg == 0

SumInit ==
    /\ user_msg_time = NoUserMsg
    /\ summaries = <<>>
    /\ sumpc = [t \in SumTasks |-> "idle"]
    /\ sumkey = [t \in SumTasks |-> NoUserMsg]
    /\ sum_rejected = {}

\* the customer's message is saved: a new, larger created_at
SaveUserMessage ==
    /\ user_msg_time < MaxSumTime
    /\ user_msg_time' = user_msg_time + 1
    /\ UNCHANGED <<summaries, sumpc, sumkey, sum_rejected>>
    /\ UNCHANGED nonSumVars

\* uq_summary_per_message_window: UNIQUE (conversation_id, last_message_at);
\* a NULL last_message_at never conflicts
UniqueViolation(rows, key) == key # NoUserMsg /\ key \in Range(rows)

\* the insert with the table's unique constraint left out
InsertSummaryRowUnchecked(rows, key) == Append(rows, key)

\* db.add(summary); db.commit() with IntegrityError -> rollback
InsertSummaryRow(rows, key) == IF UniqueViolation(rows, key) THEN rows ELSE Append(rows, key)

\* max(last_message_at) over the summaries of the conversation, NULL if none
\* or all NULL
RECURSIVE LastSummarized(_)
LastSummarized(rows) ==
    IF rows = <<>> THEN NoUserMsg
    ELSE LET m == LastSummarized(Tail(rows))
         IN IF Head(rows) > m THEN Head(rows) ELSE m

\* _get_conversations_needing_summary returns the conversation: it has a user
\* message and no summary for the current message window
SelectForSummary(t) ==
    /\ sumpc[t] = "idle"
    /\ user_msg_time # NoUserMsg
    /\ LastSummarized(summaries) = NoUserMsg \/ LastSummarized(summaries) < user_msg_time
    /\ sumpc' = [sumpc EXCEPT ![t] = "selected"]
    /\ UNCHANGED <<user_msg_time, summaries, sumkey, sum_rejected>>
    /\ UNCHANGED nonSumVars

\* create_and_send_summary up to the AI call: read last_user_msg_time, return
\* if a summary with that key exists
CreateSummaryStart(t) ==
    /\ sumpc[t] = "selected"
    /\ LET existing == user_msg_time # NoUserMsg /\ user_msg_time \in Range(summaries)
       IN /\ sumkey' = [sumkey EXCEPT ![t] = IF existing THEN NoUserMsg ELSE user_msg_time]
          /\ sumpc' = [sumpc EXCEPT ![t] = IF existing THEN "idle" ELSE "generate"]
    /\ UNCHANGED <<user_msg_time, summaries, sum_rejected>>
    /\ UNCHANGED nonSumVars

\* _generate_summary returns or raises
SummaryGenerated(t, ok) ==
    /\ sumpc[t] = "generate"
    /\ sumpc' = [sumpc EXCEPT ![t] = IF ok THEN "insert" ELSE "idle"]
    /\ sumkey' = [sumkey EXCEPT ![t] = IF ok THEN @ ELSE NoUserMsg]
    /\ UNCHANGED <<user_msg_time, summaries, sum_rejected>>
    /\ UNCHANGED nonSumVars

\* create_and_send_summary: db.add(summary); db.commit()
CommitSummary(t) ==
    /\ sumpc[t] = "insert"
    /\ summaries' = InsertSummaryRow(summaries, sumkey[t])
    /\ sum_rejected' = IF UniqueViolation(summaries, sumkey[t])
                          THEN sum_rejected \cup {<<"scheduler", sumkey[t]>>}
                          ELSE sum_rejected
    /\ sumpc' = [sumpc EXCEPT ![t] = "idle"]
    /\ sumkey' = [sumkey EXCEPT ![t] = NoUserMsg]
    /\ UNCHANGED user_msg_time
    /\ UNCHANGED nonSumVars

\* send_webhook -> _generate_appointment_summary up to the AI call; the tool
\* call follows the customer's saved message, so the conversation has text
AppointmentSummaryStart(t) ==
    /\ sumpc[t] = "idle"
    /\ user_msg_time # NoUserMsg
    /\ sumpc' = [sumpc EXCEPT ![t] = "agenerate"]
    /\ UNCHANGED <<user_msg_time, summaries, sumkey, sum_rejected>>
    /\ UNCHANGED nonSumVars

\* _generate_summary returns or raises; on return last_user_msg_time is read
AppointmentSummaryGenerated(t, ok) ==
    /\ sumpc[t] = "agenerate"
    /\ sumkey' = [sumkey EXCEPT ![t] = IF ok THEN user_msg_time ELSE @]
    /\ sumpc' = [sumpc EXCEPT ![t] = IF ok THEN "ainsert" ELSE "idle"]
    /\ UNCHANGED <<user_msg_time, summaries, sum_rejected>>
    /\ UNCHANGED nonSumVars

\* _generate_appointment_summary: db.add(record); db.commit()
CommitAppointmentSummary(t) ==
    /\ sumpc[t] = "ainsert"
    /\ summaries' = InsertSummaryRow(summaries, sumkey[t])
    /\ sum_rejected' = IF UniqueViolation(summaries, sumkey[t])
                          THEN sum_rejected \cup {<<"appointment", sumkey[t]>>}
                          ELSE sum_rejected
    /\ sumpc' = [sumpc EXCEPT ![t] = "idle"]
    /\ sumkey' = [sumkey EXCEPT ![t] = NoUserMsg]
    /\ UNCHANGED user_msg_time
    /\ UNCHANGED nonSumVars

SumNext ==
    \/ SaveUserMessage
    \/ \E t \in SumTasks : SelectForSummary(t)
    \/ \E t \in SumTasks : CreateSummaryStart(t)
    \/ \E t \in SumTasks, ok \in BOOLEAN : SummaryGenerated(t, ok)
    \/ \E t \in SumTasks : CommitSummary(t)
    \/ \E t \in SumTasks : AppointmentSummaryStart(t)
    \/ \E t \in SumTasks, ok \in BOOLEAN : AppointmentSummaryGenerated(t, ok)
    \/ \E t \in SumTasks : CommitAppointmentSummary(t)

(***************************************************************************)
(* message_buffer.py with time: one burst of messages of one (agent,       *)
(* phone) pair, every message arriving less than debounce_seconds after    *)
(* the one before it.  Messages are numbered in arrival order.  The        *)
(* debounce task of an instance is the entry of its own _processing_tasks. *)
(***************************************************************************)
BurstInit ==
    /\ burst_now = 0
    /\ burst_list = <<>>
    /\ burst_lock = 0
    /\ burst_timer = [i \in Instances |-> 0]
    /\ burst_count = 0
    /\ burst_last = 0
    /\ callbacks = <<>>

\* _add_message_redis on instance i: rpush, llen, cancel the instance's own
\* debounce task, then drain at once (max reached) or start a new task
BurstAddMessage(i) ==
    /\ burst_count < MaxBurst
    /\ burst_count = 0 \/ burst_now - burst_last < debounce_seconds
    /\ burst_count' = burst_count + 1
    /\ burst_last' = burst_now
    /\ LET lst == Append(burst_list, burst_count + 1)
       IN IF Len(lst) >= burst_max_messages
          THEN /\ burst_timer' = [burst_timer EXCEPT ![i] = 0]
               /\ IF burst_lock = 0
                  THEN /\ callbacks' = Append(callbacks, [at |-> burst_now, msgs |-> lst])
                       /\ burst_list' = <<>>
                       /\ burst_lock' = i
                  ELSE /\ burst_list' = lst
                       /\ UNCHANGED <<callbacks, burst_lock>>
          ELSE /\ burst_list' = lst
               /\ burst_timer' = [burst_timer EXCEPT ![i] = burst_now + debounce_seconds]
               /\ UNCHANGED <<callbacks, burst_lock>>
    /\ UNCHANGED burst_now
    /\ UNCHANGED nonBurstVars

\* _delayed_redis_process on instance i: the sleep is over,
\* _process_redis_buffer runs up to the call of the callback
BurstTimerFires(i) ==
    /\ burst_timer[i] # 0
    /\ burst_timer[i] = burst_now
    /\ burst_timer' = [burst_timer EXCEPT ![i] = 0]
    /\ IF burst_lock = 0 /\ burst_list # <<>>
       THEN /\ callbacks' = Append(callbacks, [at |-> burst_now, msgs |-> burst_list])
            /\ burst_list' = <<>>
            /\ burst_lock' = i
       ELSE UNCHANGED <<callbacks, burst_list, burst_lock>>
    /\ UNCHANGED <<burst_now, burst_count, burst_last>>
    /\ UNCHANGED nonBurstVars

\* the callback returns; finally: r.delete(lock_key)
BurstCallbackReturns ==
    /\ burst_lock # 0
    /\ burst_lock' = 0
    /\ UNCHANGED <<burst_now, burst_list, burst_timer, burst_count, burst_last, callbacks>>
    /\ UNCHANGED nonBurstVars

\* a second passes; a debounce task whose sleep is over runs first
BurstTick ==
    /\ burst_now < MaxBurstClock
    /\ \A i \in Instances : burst_timer[i] = 0 \/ burst_timer[i] # burst_now
    /\ burst_now' = burst_now + 1
    /\ UNCHANGED <<burst_list, burst_lock, burst_timer, burst_count, burst_last, callbacks>>
    /\ UNCHANGED nonBurstVars

BurstNext ==
    \/ \E i \in Instances : BurstAddMessage(i)
    \/ \E i \in Instances : BurstTimerFires(i)
    \/ BurstCallbackReturns
    \/ BurstTick

(***************************************************************************)
(* The in-memory fallback of message_buffer.py for one (agent, phone) pair *)
(* in one process, with the callback process_batched_messages.  The        *)
(* callback saves the batch's text messages before its first await, so     *)
(* the drain and the save are one step; it then awaits the model and       *)
(* saves and sends the reply.                                              *)
(***************************************************************************)
MemInit ==
    /\ mem_messages = <<>>
    /\ mem_task = "none"
    /\ mem_arrived = 0
    /\ mem_batches = <<>>
    /\ mem_stage = <<>>
    /\ mem_log = <<>>

\* _add_message_memory: cancel the debounce task, append; at max_messages
\* _process_memory_buffer runs in the call, otherwise a new task is started
MemAddMessage ==
    /\ mem_arrived < MaxMemMsgs
    /\ mem_arrived' = mem_arrived + 1
    /\ LET lst == Append(mem_messages, mem_arrived + 1)
       IN IF Len(lst) >= max_messages
          THEN /\ mem_messages' = <<>>
               /\ mem_task' = "none"
               /\ mem_batches' = Append(mem_batches, lst)
               /\ mem_stage' = Append(mem_stage, "ai")
               /\ mem_log' = Append(mem_log, [batch |-> Len(mem_batches) + 1,
                                              what |-> "messages saved"])
          ELSE /\ mem_messages' = lst
               /\ mem_task' = "sleep"
               /\ UNCHANGED <<mem_batches, mem_stage, mem_log>>
    /\ UNCHANGED nonMemVars

\* _delayed_memory_process: the sleep is over; _process_memory_buffer copies
\* and clears the list, drops the task and calls the callback
MemTimerFires ==
    /\ mem_task = "sleep"
    /\ mem_task' = "none"
    /\ IF mem_messages = <<>>
       THEN UNCHANGED <<mem_messages, mem_batches, mem_stage, mem_log>>
       ELSE /\ mem_messages' = <<>>
            /\ mem_batches' = Append(mem_batches, mem_messages)
            /\ mem_stage' = Append(mem_stage, "ai")
            /\ mem_log' = Append(mem_log, [batch |-> Len(mem_batches) + 1,
                                           what |-> "messages saved"])
    /\ UNCHANGED mem_arrived
    /\ UNCHANGED nonMemVars

\* process_batched_messages: ai.get_response returns; a response with text
\* is saved and sent
MemReply(b, text) ==
    /\ b \in 1..Len(mem_batches)
    /\ mem_stage[b] = "ai"
    /\ mem_stage' = [mem_stage EXCEPT ![b] = "done"]
    /\ mem_log' = IF text THEN Append(mem_log, [batch |-> b, what |-> "reply sent"])
                          ELSE mem_log
    /\ UNCHANGED <<mem_messages, mem_task, mem_arrived, mem_batches>>
    /\ UNCHANGED nonMemVars

MemNext ==
    \/ MemAddMessage
    \/ MemTimerFires
    \/ \E b \in 1..MaxMemMsgs, text \in BOOLEAN : MemReply(b, text)

(***************************************************************************)
(* routers/webhook.py: receive_webhook for text messages of one sender to  *)
(* one phone_number_id.  A body carries the message's id and its text.     *)
(* The posts are answered one after the other.                             *)
(***************************************************************************)
MetaInit ==
    /\ hash_seed = [i \in Instances |-> NoSeed]
    /\ meta_processed = {}
    /\ posts = <<>>
    /\ meta_now = 0

\* main.py: uvicorn.run starts (or, with reload=True, restarts) the process of
\* instance i; the interpreter draws the seed of str hashing
StartProcess(i, seed) ==
    /\ hash_seed[i] # seed
    /\ hash_seed' = [hash_seed EXCEPT ![i] = seed]
    /\ UNCHANGED <<meta_processed, posts, meta_now>>
    /\ UNCHANGED nonMetaVars

\* api/webhook.py extract_message for a text message: the content is
\* msg.text.body; msg.id is not part of the tuple it returns
ExtractMessage(body) == body.text

\* hash(content) of Python: a function of the text and of the seed the
\* process drew at start (PYTHONHASHSEED is not set by the program)
PyHash(seed, content) == 10 * seed + 9 + content

\* message_id = f"{phone_number_id}:{user_phone}:{hash(content)}", on instance i
MetaMessageId(i, content) == PyHash(hash_seed[i], content)

\* _cleanup_old_entries at time now
CleanupBefore(rows, now) == {row \in rows : ~(row.processed_at < now - DEDUP_TTL_MINUTES)}

\* is_duplicate(message_id): TRUE iff a row with the id exists
MetaIsDuplicate(id) == \E row \in meta_processed : row.message_id = id

\* receive_webhook on instance i: extract, build the id, is_duplicate; a new
\* id is recorded (ids ending in '0' run the cleanup) and the handler task
\* is created
ReceiveWebhook(i, body) ==
    /\ hash_seed[i] # NoSeed
    /\ Len(posts) < MaxPosts
    /\ LET id == MetaMessageId(i, ExtractMessage(body))
           dup == MetaIsDuplicate(id)
           added == meta_processed \cup {[message_id |-> id, processed_at |-> meta_now]}
       IN /\ meta_processed' = IF dup THEN meta_processed
                               ELSE IF id % 10 = 0 THEN CleanupBefore(added, meta_now)
                               ELSE added
          /\ posts' = Append(posts, [body |-> body, inst |-> i, at |-> meta_now,
                                     duplicate |-> dup])
    /\ UNCHANGED <<hash_seed, meta_now>>
    /\ UNCHANGED nonMetaVars

\* a minute passes
MetaTick ==
    /\ meta_now < MaxMetaClock
    /\ meta_now' = meta_now + 1
    /\ UNCHANGED <<hash_seed, meta_processed, posts>>
    /\ UNCHANGED nonMetaVars

MetaNext ==
    \/ \E i \in Instances, seed \in HashSeeds : StartProcess(i, seed)
    \/ \E i \in Instances, body \in Bodies : ReceiveWebhook(i, body)
    \/ MetaTick

(***************************************************************************)
(* process_batched_messages, lines 117-125: conversations.get_or_create,   *)
(* conv.last_customer_message_at = datetime.utcnow(), db.commit(), for the *)
(* batches of one conversation.  Within one process the assignment and the *)
(* commit run without an await in between; two processes interleave.       *)
(***************************************************************************)
StampInit ==
    /\ stamp_now = 1
    /\ lcm_column = 0
    /\ stamp_stage = [b \in StampBatches |-> "new"]
    /\ stamp_inst = [b \in StampBatches |-> 0]
    /\ stamp_value = [b \in StampBatches |-> 0]

\* conv.last_customer_message_at = datetime.utcnow() in the session of batch b
\* on instance i
AssignLastCustomerMessageAt(b, i) ==
    /\ stamp_stage[b] = "new"
    /\ \A c \in StampBatches : stamp_inst[c] = i => stamp_stage[c] # "assigned"
    /\ stamp_stage' = [stamp_stage EXCEPT ![b] = "assigned"]
    /\ stamp_inst' = [stamp_inst EXCEPT ![b] = i]
    /\ stamp_value' = [stamp_value EXCEPT ![b] = stamp_now]
    /\ UNCHANGED <<stamp_now, lcm_column>>
    /\ UNCHANGED nonStampVars

\* db.commit(): UPDATE conversations SET last_customer_message_at = <value>
CommitLastCustomerMessageAt(b) ==
    /\ stamp_stage[b] = "assigned"
    /\ lcm_column' = stamp_value[b]
    /\ stamp_stage' = [stamp_stage EXCEPT ![b] = "committed"]
    /\ UNCHANGED <<stamp_now, stamp_inst, stamp_value>>
    /\ UNCHANGED nonStampVars

\* time passes
StampTick ==
    /\ stamp_now < MaxStampClock
    /\ stamp_now' = stamp_now + 1
    /\ UNCHANGED <<lcm_column, stamp_stage, stamp_inst, stamp_value>>
    /\ UNCHANGED nonStampVars

StampNext ==
    \/ \E b \in StampBatches, i \in Instances : AssignLastCustomerMessageAt(b, i)
    \/ \E b \in StampBatches : CommitLastCustomerMessageAt(b)
    \/ StampTick

(***************************************************************************)
(* followups.py: scan_for_followups and the processing of the rows, for    *)
(* one conversation whose customer stays silent (the last message is the   *)
(* assistant's, nothing paused or opted out, inactivity, cooldown and      *)
(* daily limit have passed whenever a scan runs).  Two executions of the   *)
(* scan: scheduler cycles of two instances can overlap (see C3).           *)
(***************************************************************************)
SeqInit ==
    /\ seq_rows = <<>>
    /\ scan_pc = [e \in Execs |-> "idle"]

\* the number of rows with a status in S
CountStatus(rows, S) == Cardinality({r \in 1..Len(rows) : rows[r] \in S})

\* the filter of the main query of _scan_agent for the conversation
Eligible(rows) ==
    /\ CountStatus(rows, {"pending", "evaluating"}) = 0
    /\ CountStatus(rows, {"sent"}) < max_followups
    /\ CountStatus(rows, {"sent", "skipped"}) < max_followups * 2

\* _scan_agent: the main query returns the conversation
ScanQuery(e) ==
    /\ scan_pc[e] = "idle"
    /\ Eligible(seq_rows)
    /\ Len(seq_rows) + Cardinality({k \in Execs : scan_pc[k] = "insert"}) < MaxSeqRows
    /\ scan_pc' = [scan_pc EXCEPT ![e] = "insert"]
    /\ UNCHANGED seq_rows
    /\ UNCHANGED nonSeqVars

\* _schedule_followup + db.commit(): a pending row is added
ScheduleFollowupRow(e) ==
    /\ scan_pc[e] = "insert"
    /\ seq_rows' = Append(seq_rows, "pending")
    /\ scan_pc' = [scan_pc EXCEPT ![e] = "idle"]
    /\ UNCHANGED nonSeqVars

\* process_pending_followups on a due pending row: evaluating, then
\* _process_single sends it (sent) or not (skipped)
ProcessFollowupRow(r, send) ==
    /\ r \in 1..Len(seq_rows)
    /\ seq_rows[r] = "pending"
    /\ seq_rows' = [seq_rows EXCEPT ![r] = IF send THEN "sent" ELSE "skipped"]
    /\ UNCHANGED scan_pc
    /\ UNCHANGED nonSeqVars

SeqNext ==
    \/ \E e \in Execs : ScanQuery(e)
    \/ \E e \in Execs : ScheduleFollowupRow(e)
    \/ \E r \in 1..MaxSeqRows, send \in BOOLEAN : ProcessFollowupRow(r, send)

(***************************************************************************)
(* summaries.py: create_and_send_summary for one (conversation,            *)
(* last_message_at), run by NSumTask executions, and the delivery of the   *)
(* row's webhook by _try_send_webhook, first from create_and_send_summary  *)
(* and then from retry_pending_webhooks, which the scheduler cycles of two *)
(* instances can run at the same time (see C3).                            *)
(***************************************************************************)
HookInit ==
    /\ hook_rows = <<>>
    /\ hook_url = FALSE
    /\ hook_posts = <<>>
    /\ hk_pc = [t \in SumTasks |-> "start"]
    /\ hk_url = [t \in SumTasks |-> FALSE]
    /\ rt_pc = [e \in Execs |-> "idle"]
    /\ rt_attempts = [e \in Execs |-> 0]

\* PUT of the summary config: webhook_url is set or emptied
UpdateSummaryConfig(u) ==
    /\ hook_url # u
    /\ hook_url' = u
    /\ UNCHANGED <<hook_rows, hook_posts, hk_pc, hk_url, rt_pc, rt_attempts>>
    /\ UNCHANGED nonHookVars

\* create_and_send_summary up to the call of the AI: the query for an
\* existing row of the window
CreateSummaryQuery(t) ==
    /\ hk_pc[t] = "start"
    /\ hk_pc' = [hk_pc EXCEPT ![t] = IF Len(hook_rows) > 0 THEN "none_existing" ELSE "generate"]
    /\ hk_url' = [hk_url EXCEPT ![t] = hook_url]
    /\ UNCHANGED <<hook_rows, hook_url, hook_posts, rt_pc, rt_attempts>>
    /\ UNCHANGED nonHookVars

\* await _generate_summary: the text, or an exception and return None
CreateSummaryText(t, ok) ==
    /\ hk_pc[t] = "generate"
    /\ hk_pc' = [hk_pc EXCEPT ![t] = IF ok THEN "commit" ELSE "none_ai"]
    /\ UNCHANGED <<hook_rows, hook_url, hook_posts, hk_url, rt_pc, rt_attempts>>
    /\ UNCHANGED nonHookVars

\* the row create_and_send_summary adds
NewSummaryRow == [status |-> "pending", attempts |-> 0, due |-> FALSE]

\* db.add + db.commit with the IntegrityError handler sending the webhook
\* all the same
CommitSummaryRowIgnoringConflict(t) ==
    /\ hk_pc[t] = "commit"
    /\ hook_rows' = IF Len(hook_rows) > 0 THEN hook_rows ELSE Append(hook_rows, NewSummaryRow)
    /\ hk_pc' = [hk_pc EXCEPT ![t] = "send"]
    /\ UNCHANGED <<hook_url, hook_posts, hk_url, rt_pc, rt_attempts>>
    /\ UNCHANGED nonHookVars

\* db.add + db.commit: uq_summary_per_message_window rejects a second row
\* (IntegrityError, rollback, return None); otherwise the row is stored
CommitSummaryRow(t) ==
    /\ hk_pc[t] = "commit"
    /\ IF Len(hook_rows) > 0
         THEN /\ hk_pc' = [hk_pc EXCEPT ![t] = "none_conflict"]
              /\ UNCHANGED hook_rows
         ELSE /\ hook_rows' = Append(hook_rows, NewSummaryRow)
              /\ hk_pc' = [hk_pc EXCEPT ![t] = "send"]
    /\ UNCHANGED <<hook_url, hook_posts, hk_url, rt_pc, rt_attempts>>
    /\ UNCHANGED nonHookVars

\* _try_send_webhook without a webhook_url: the row is failed, no POST
NoWebhookUrl(row) == [row EXCEPT !.status = "failed"]

\* _try_send_webhook after the POST, with the session's webhook_attempts:
\* sent, or failed at the retry count, or a later retry (the status column
\* is not written on that branch)
AfterPost(row, attempts, ok) ==
    IF ok THEN [status |-> "sent", attempts |-> attempts, due |-> FALSE]
    ELSE IF attempts >= webhook_retry_count
         THEN [status |-> "failed", attempts |-> attempts, due |-> FALSE]
         ELSE [status |-> row.status, attempts |-> attempts, due |-> FALSE]

\* the POST of _send_webhook goes out
Post(by, id) == Append(hook_posts, [by |-> by, id |-> id, status |-> hook_rows[1].status])

\* create_and_send_summary: _try_send_webhook up to the POST
CreateTrySendWebhook(t) ==
    /\ hk_pc[t] = "send"
    /\ IF hk_url[t]
         THEN /\ Len(hook_posts) < MaxHookPosts
              /\ hook_posts' = Post("create", t)
              /\ hk_pc' = [hk_pc EXCEPT ![t] = "post"]
              /\ UNCHANGED hook_rows
         ELSE /\ hook_rows' = [hook_rows EXCEPT ![1] = NoWebhookUrl(@)]
              /\ hk_pc' = [hk_pc EXCEPT ![t] = "returned_row"]
              /\ UNCHANGED hook_posts
    /\ UNCHANGED <<hook_url, hk_url, rt_pc, rt_attempts>>
    /\ UNCHANGED nonHookVars

\* create_and_send_summary: the POST is answered, commit, return summary
CreatePostAnswered(t, ok) ==
    /\ hk_pc[t] = "post"
    /\ hook_rows' = [hook_rows EXCEPT ![1] = AfterPost(@, 1, ok)]
    /\ hk_pc' = [hk_pc EXCEPT ![t] = "returned_row"]
    /\ UNCHANGED <<hook_url, hook_posts, hk_url, rt_pc, rt_attempts>>
    /\ UNCHANGED nonHookVars

\* create_and_send_summary ends between the commit of the insert and the
\* commit of _try_send_webhook: that db.commit() raises (the exception is
\* logged by process_pending_summaries), or the process stops during the
\* POST (up to 30 s).  The changes of the session are lost, the row stays
\* as the insert committed it
CreateSendRaises(t) ==
    /\ hk_pc[t] \in {"send", "post"}
    /\ hk_pc' = [hk_pc EXCEPT ![t] = "raised"]
    /\ UNCHANGED <<hook_rows, hook_url, hook_posts, hk_url, rt_pc, rt_attempts>>
    /\ UNCHANGED nonHookVars

\* next_retry_at of a row waiting for a retry is reached
RetryBecomesDue ==
    /\ Len(hook_rows) > 0
    /\ hook_rows[1].status = "pending"
    /\ hook_rows[1].attempts > 0
    /\ ~hook_rows[1].due
    /\ hook_rows' = [hook_rows EXCEPT ![1].due = TRUE]
    /\ UNCHANGED <<hook_url, hook_posts, hk_pc, hk_url, rt_pc, rt_attempts>>
    /\ UNCHANGED nonHookVars

\* retry_pending_webhooks: the query returns the row, _try_send_webhook up
\* to the POST
RetryPendingWebhooks(e) ==
    /\ rt_pc[e] = "idle"
    /\ Len(hook_rows) > 0
    /\ hook_rows[1].status = "pending"
    /\ hook_rows[1].attempts > 0
    /\ hook_rows[1].due
    /\ IF hook_url
         THEN /\ Len(hook_posts) < MaxHookPosts
              /\ hook_posts' = Post("retry", e)
              /\ rt_pc' = [rt_pc EXCEPT ![e] = "post"]
              /\ rt_attempts' = [rt_attempts EXCEPT ![e] = hook_rows[1].attempts + 1]
              /\ UNCHANGED hook_rows
         ELSE /\ hook_rows' = [hook_rows EXCEPT ![1] = NoWebhookUrl(@)]
              /\ UNCHANGED <<hook_posts, rt_pc, rt_attempts>>
    /\ UNCHANGED <<hook_url, hk_pc, hk_url>>
    /\ UNCHANGED nonHookVars

\* retry_pending_webhooks: the POST is answered, commit
RetryPostAnswered(e, ok) ==
    /\ rt_pc[e] = "post"
    /\ hook_rows' = [hook_rows EXCEPT ![1] = AfterPost(@, rt_attempts[e], ok)]
    /\ rt_pc' = [rt_pc EXCEPT ![e] = "idle"]
    /\ rt_attempts' = [rt_attempts EXCEPT ![e] = 0]
    /\ UNCHANGED <<hook_url, hook_posts, hk_pc, hk_url>>
    /\ UNCHANGED nonHookVars

HookNext ==
    \/ \E u \in BOOLEAN : UpdateSummaryConfig(u)
    \/ \E t \in SumTasks : CreateSummaryQuery(t)
    \/ \E t \in SumTasks, ok \in BOOLEAN : CreateSummaryText(t, ok)
    \/ \E t \in SumTasks : CommitSummaryRow(t)
    \/ \E t \in SumTasks : CreateTrySendWebhook(t)
    \/ \E t \in SumTasks, ok \in BOOLEAN : CreatePostAnswered(t, ok)
    \/ \E t \in SumTasks : CreateSendRaises(t)
    \/ RetryBecomesDue
    \/ \E e \in Execs : RetryPendingWebhooks(e)
    \/ \E e \in Execs, ok \in BOOLEAN : RetryPostAnswered(e, ok)

(***************************************************************************)
(* llm/key_manager.py: the key pool of one provider with round-robin       *)
(* selection, cooldown after 429 and dead keys after an authentication     *)
(* failure, used by the retry loop _call_with_retry of the OpenAI and      *)
(* Gemini providers.                                                       *)
(***************************************************************************)
NoReturn == [key |-> "none", available |-> TRUE, any_available |-> TRUE, earliest |-> TRUE]

KeyInit ==
    /\ key_now = 0
    /\ available_at = [i \in 1..Len(PoolKeys) |-> 0]
    /\ key_dead = [i \in 1..Len(PoolKeys) |-> FALSE]
    /\ rr_counter = 0
    /\ key_last = NoReturn
    /\ call_pc = [r \in KeyCalls |-> "idle"]
    /\ call_key = [r \in KeyCalls |-> "none"]
    /\ call_custom = [r \in KeyCalls |-> NoCustom]
    /\ call_attempt = [r \in KeyCalls |-> 0]

\* _KeyState.is_available
IsAvailable(avail, dead, now, i) == ~dead[i] /\ now >= avail[i]

\* the positions of the pool in the order get_key tries them
ScanOrder(counter, i) == (((counter % Len(PoolKeys)) + i) % Len(PoolKeys)) + 1

\* get_key that takes the next key of the round robin whatever its state
GetKeyPlainRoundRobin(custom, avail, dead, counter, now) ==
    IF custom # NoCustom THEN [key |-> custom, counter |-> counter]
    ELSE [key |-> PoolKeys[ScanOrder(counter, 0)], counter |-> ScanOrder(counter, 0)]

\* get_key: the override, else the first available key from the counter on,
\* else the key that is not dead with the earliest available_at, else
\* ValueError
GetKey(custom, avail, dead, counter, now) ==
    IF custom # NoCustom THEN [key |-> custom, counter |-> counter]
    ELSE IF \E i \in 0..(Len(PoolKeys) - 1) : IsAvailable(avail, dead, now, ScanOrder(counter, i))
    THEN LET i == CHOOSE i \in 0..(Len(PoolKeys) - 1) :
                      /\ IsAvailable(avail, dead, now, ScanOrder(counter, i))
                      /\ \A j \in 0..(i - 1) : ~IsAvailable(avail, dead, now, ScanOrder(counter, j))
         IN  [key |-> PoolKeys[ScanOrder(counter, i)], counter |-> ScanOrder(counter, i)]
    ELSE IF \E i \in 1..Len(PoolKeys) : ~dead[i]
    THEN LET best == CHOOSE i \in 1..Len(PoolKeys) :
                         /\ ~dead[i]
                         /\ \A j \in 1..Len(PoolKeys) :
                                ~dead[j] => (avail[i] < avail[j] \/ (avail[i] = avail[j] /\ i <= j))
         IN  [key |-> PoolKeys[best], counter |-> counter]
    ELSE [key |-> "ValueError", counter |-> counter]

\* the position of a key in the pool
PoolIndex(key) == CHOOSE i \in 1..Len(PoolKeys) : PoolKeys[i] = key

\* what key_last keeps of a call of get_key on the pool: the key, whether
\* it was available, whether any key was, and whether no other key that is
\* not dead had an earlier available_at
Returned(custom, g, avail, dead) ==
    IF custom # NoCustom \/ g.key = "ValueError" THEN key_last
    ELSE [key |-> g.key,
          available |-> IsAvailable(avail, dead, key_now, PoolIndex(g.key)),
          any_available |-> \E i \in 1..Len(PoolKeys) : IsAvailable(avail, dead, key_now, i),
          earliest |-> /\ ~dead[PoolIndex(g.key)]
                       /\ \A j \in 1..Len(PoolKeys) : ~dead[j] => avail[PoolIndex(g.key)] <= avail[j]]

\* mark_rate_limited: the pool key gets available_at = now + cooldown
MarkRateLimited(avail, key, retry_after, jitter) ==
    [i \in 1..Len(PoolKeys) |->
        IF PoolKeys[i] = key
        THEN key_now + (IF retry_after # 0 THEN retry_after ELSE COOLDOWN_DEFAULT) + jitter
        ELSE avail[i]]

\* mark_dead: the pool key with this value is dead
MarkDead(dead, key) == [i \in 1..Len(PoolKeys) |-> dead[i] \/ PoolKeys[i] = key]

\* is_override_key
IsOverrideKey(key, custom) == custom # NoCustom /\ custom = key

\* the end of one round of the retry loop: the next attempt, or raise
\* last_error after MAX_RETRIES attempts
NextAttempt(r, key) ==
    IF call_attempt[r] + 1 >= MAX_RETRIES
    THEN /\ call_pc' = [call_pc EXCEPT ![r] = "idle"]
         /\ call_key' = [call_key EXCEPT ![r] = "none"]
         /\ call_attempt' = [call_attempt EXCEPT ![r] = 0]
         /\ call_custom' = [call_custom EXCEPT ![r] = NoCustom]
    ELSE /\ call_key' = [call_key EXCEPT ![r] = key]
         /\ call_attempt' = [call_attempt EXCEPT ![r] = @ + 1]
         /\ UNCHANGED <<call_pc, call_custom>>

\* an exception leaves _call_with_retry
CallRaises(r) ==
    /\ call_pc' = [call_pc EXCEPT ![r] = "idle"]
    /\ call_key' = [call_key EXCEPT ![r] = "none"]
    /\ call_attempt' = [call_attempt EXCEPT ![r] = 0]
    /\ call_custom' = [call_custom EXCEPT ![r] = NoCustom]

\* a request of an agent: the provider is built with get_key(provider, agent)
StartCall(r, custom) ==
    /\ call_pc[r] = "idle"
    /\ LET g == GetKey(custom, available_at, key_dead, rr_counter, key_now)
       IN  /\ g.key # "ValueError"
           /\ call_pc' = [call_pc EXCEPT ![r] = "calling"]
           /\ call_key' = [call_key EXCEPT ![r] = g.key]
           /\ call_custom' = [call_custom EXCEPT ![r] = custom]
           /\ rr_counter' = g.counter
           /\ key_last' = Returned(custom, g, available_at, key_dead)
    /\ UNCHANGED <<key_now, available_at, key_dead, call_attempt>>
    /\ UNCHANGED nonKeyVars

\* the provider answers: _call_with_retry returns
CallSucceeds(r) ==
    /\ call_pc[r] = "calling"
    /\ call_pc' = [call_pc EXCEPT ![r] = "idle"]
    /\ call_key' = [call_key EXCEPT ![r] = "none"]
    /\ call_attempt' = [call_attempt EXCEPT ![r] = 0]
    /\ call_custom' = [call_custom EXCEPT ![r] = NoCustom]
    /\ UNCHANGED <<key_now, available_at, key_dead, rr_counter, key_last>>
    /\ UNCHANGED nonKeyVars

\* 429: an override key backs off and is retried; a pool key is put on
\* cooldown and get_key chooses the key of the next attempt
RateLimited(r, retry_after, jitter) ==
    /\ call_pc[r] = "calling"
    /\ IF IsOverrideKey(call_key[r], call_custom[r])
         THEN /\ NextAttempt(r, call_key[r])
              /\ UNCHANGED <<available_at, key_dead, rr_counter, key_last>>
         ELSE LET marked == MarkRateLimited(available_at, call_key[r], retry_after, jitter)
                  g == GetKey(call_custom[r], marked, key_dead, rr_counter, key_now)
              IN  /\ available_at' = marked
                  /\ rr_counter' = g.counter
                  /\ key_last' = Returned(call_custom[r], g, marked, key_dead)
                  /\ IF g.key = "ValueError" THEN CallRaises(r) ELSE NextAttempt(r, g.key)
                  /\ UNCHANGED key_dead
    /\ UNCHANGED key_now
    /\ UNCHANGED nonKeyVars

\* authentication error: mark_dead of the current key, then get_key on the
\* pool alone for an override key and get_key(provider, agent) otherwise
AuthFailed(r) ==
    /\ call_pc[r] = "calling"
    /\ LET marked == MarkDead(key_dead, call_key[r])
           custom == IF IsOverrideKey(call_key[r], call_custom[r]) THEN NoCustom ELSE call_custom[r]
           g == GetKey(custom, available_at, marked, rr_counter, key_now)
       IN  /\ key_dead' = marked
           /\ rr_counter' = g.counter
           /\ key_last' = Returned(custom, g, available_at, marked)
           /\ IF g.key = "ValueError" THEN CallRaises(r) ELSE NextAttempt(r, g.key)
    /\ UNCHANGED <<key_now, available_at>>
    /\ UNCHANGED nonKeyVars

\* any other exception: back off and retry on the same key
OtherError(r) ==
    /\ call_pc[r] = "calling"
    /\ NextAttempt(r, call_key[r])
    /\ UNCHANGED <<key_now, available_at, key_dead, rr_counter, key_last>>
    /\ UNCHANGED nonKeyVars

KeyTick ==
    /\ key_now + KeyTickStep <= MaxKeyClock
    /\ key_now' = key_now + KeyTickStep
    /\ UNCHANGED <<available_at, key_dead, rr_counter, key_last, call_pc, call_key, call_custom, call_attempt>>
    /\ UNCHANGED nonKeyVars

KeyNext ==
    \/ \E r \in KeyCalls, custom \in CustomKeys \cup {NoCustom} : StartCall(r, custom)
    \/ \E r \in KeyCalls : CallSucceeds(r)
    \/ \E r \in KeyCalls, retry_after \in RetryAfters, jitter \in Jitters : RateLimited(r, retry_after, jitter)
    \/ \E r \in KeyCalls : AuthFailed(r)
    \/ \E r \in KeyCalls : OtherError(r)
    \/ KeyTick

(***************************************************************************)
(* context_summary/runner.py and builder.py, run by the Celery task        *)
(* run_context_summary_task under context_summary:lock:{conversation_id},  *)
(* for one conversation whose messages are added by messages.add from the  *)
(* web instances, the scheduler and the API.                               *)
(***************************************************************************)
CtxInit ==
    /\ ctx_now = 0
    /\ add_pc = [m \in CtxMsgs |-> "new"]
    /\ add_at = [m \in CtxMsgs |-> 0]
    /\ add_id = [m \in CtxMsgs |-> 0]
    /\ ctx_covered = 0
    /\ ctx_count = 0
    /\ ctx_inputs = {}
    /\ ctx_lock = FALSE
    /\ run_pc = [e \in Execs |-> "idle"]
    /\ run_base = [e \in Execs |-> 0]
    /\ run_count = [e \in Execs |-> 0]
    /\ run_input = [e \in Execs |-> {}]
    /\ run_last = [e \in Execs |-> 0]

\* Message(...): the column default created_at = datetime.utcnow() (the
\* messages are numbered in the order of this step)
StampMessage(m) ==
    /\ add_pc[m] = "new"
    /\ \A k \in CtxMsgs : k < m => add_pc[k] # "new"
    /\ add_pc' = [add_pc EXCEPT ![m] = "stamped"]
    /\ add_at' = [add_at EXCEPT ![m] = ctx_now]
    /\ UNCHANGED <<ctx_now, add_id, ctx_covered, ctx_count, ctx_inputs, ctx_lock, run_pc, run_base, run_count, run_input, run_last>>
    /\ UNCHANGED nonCtxVars

\* the INSERT: the id is the next value of the sequence
InsertMessage(m) ==
    /\ add_pc[m] = "stamped"
    /\ add_pc' = [add_pc EXCEPT ![m] = "inserted"]
    /\ add_id' = [add_id EXCEPT ![m] = Cardinality({k \in CtxMsgs : add_id[k] > 0}) + 1]
    /\ UNCHANGED <<ctx_now, add_at, ctx_covered, ctx_count, ctx_inputs, ctx_lock, run_pc, run_base, run_count, run_input, run_last>>
    /\ UNCHANGED nonCtxVars

\* db.commit() of messages.add: the row is visible to the other sessions
CommitMessage(m) ==
    /\ add_pc[m] = "inserted"
    /\ add_pc' = [add_pc EXCEPT ![m] = "committed"]
    /\ UNCHANGED <<ctx_now, add_at, add_id, ctx_covered, ctx_count, ctx_inputs, ctx_lock, run_pc, run_base, run_count, run_input, run_last>>
    /\ UNCHANGED nonCtxVars

CtxTick ==
    /\ ctx_now < MaxCtxClock
    /\ ctx_now' = ctx_now + 1
    /\ UNCHANGED <<add_pc, add_at, add_id, ctx_covered, ctx_count, ctx_inputs, ctx_lock, run_pc, run_base, run_count, run_input, run_last>>
    /\ UNCHANGED nonCtxVars

\* the messages a query of the conversation returns
Visible == {m \in CtxMsgs : add_pc[m] = "committed"}

\* ORDER BY created_at (rows with equal created_at in the order of their ids)
CreatedBefore(a, b) == add_at[a] < add_at[b] \/ (add_at[a] = add_at[b] /\ add_id[a] < add_id[b])

\* should_do_full_summary
ShouldDoFullSummary(incremental_count) ==
    full_summary_every > 0 /\ incremental_count > 0 /\ incremental_count % full_summary_every = 0

\* _build_incremental_prompt: the messages with id > last_message_id_covered
IncrementalInput(base) == {add_id[m] : m \in {k \in Visible : add_id[k] > base}}

\* _build_full_prompt: the first MAX_MESSAGES_FOR_FULL_SUMMARY messages by
\* created_at
FullInput ==
    {add_id[m] : m \in {k \in Visible :
        Cardinality({j \in Visible : CreatedBefore(j, k)}) < MAX_MESSAGES_FOR_FULL_SUMMARY}}

\* get_last_message_id: the row with the latest created_at (any of them
\* when several have it)
GetLastMessageId(m) == \A k \in Visible : add_at[k] <= add_at[m]

\* run_context_summary_task takes the lock; run_summary up to the awaited
\* LLM call
RunSummaryStart(e) ==
    /\ run_pc[e] = "idle"
    /\ ~ctx_lock
    /\ Visible # {}
    /\ \E m \in Visible :
          /\ GetLastMessageId(m)
          /\ run_last' = [run_last EXCEPT ![e] = add_id[m]]
    /\ ctx_lock' = TRUE
    /\ run_pc' = [run_pc EXCEPT ![e] = "llm"]
    /\ run_base' = [run_base EXCEPT ![e] = ctx_covered]
    /\ run_count' = [run_count EXCEPT ![e] = ctx_count]
    /\ run_input' = [run_input EXCEPT ![e] =
                        IF ShouldDoFullSummary(ctx_count) THEN FullInput ELSE IncrementalInput(ctx_covered)]
    /\ UNCHANGED <<ctx_now, add_pc, add_at, add_id, ctx_covered, ctx_count, ctx_inputs>>
    /\ UNCHANGED nonCtxVars

\* the LLM answers; _save_summary updates the row the run loaded or inserts
\* one (IntegrityError on conversation_id when another run inserted it), an
\* empty answer raises; the task deletes the lock
RunSummarySave(e, ok) ==
    /\ run_pc[e] = "llm"
    /\ IF ok /\ (run_base[e] > 0 \/ ctx_covered = 0)
         THEN /\ ctx_covered' = run_last[e]
              /\ ctx_count' = IF run_base[e] = 0 THEN 1
                              ELSE IF ShouldDoFullSummary(run_count[e]) THEN 0
                              ELSE run_count[e] + 1
              /\ ctx_inputs' = ctx_inputs \cup run_input[e]
         ELSE UNCHANGED <<ctx_covered, ctx_count, ctx_inputs>>
    /\ ctx_lock' = FALSE
    /\ run_pc' = [run_pc EXCEPT ![e] = "idle"]
    /\ run_base' = [run_base EXCEPT ![e] = 0]
    /\ run_count' = [run_count EXCEPT ![e] = 0]
    /\ run_input' = [run_input EXCEPT ![e] = {}]
    /\ run_last' = [run_last EXCEPT ![e] = 0]
    /\ UNCHANGED <<ctx_now, add_pc, add_at, add_id>>
    /\ UNCHANGED nonCtxVars

\* LOCK_TTL passes while the run still waits for the LLM
ContextLockExpires ==
    /\ ctx_lock
    /\ \E e \in Execs : run_pc[e] = "llm"
    /\ ctx_lock' = FALSE
    /\ UNCHANGED <<ctx_now, add_pc, add_at, add_id, ctx_covered, ctx_count, ctx_inputs, run_pc, run_base, run_count, run_input, run_last>>
    /\ UNCHANGED nonCtxVars

CtxNext ==
    \/ \E m \in CtxMsgs : StampMessage(m)
    \/ \E m \in CtxMsgs : InsertMessage(m)
    \/ \E m \in CtxMsgs : CommitMessage(m)
    \/ CtxTick
    \/ \E e \in Execs : RunSummaryStart(e)
    \/ \E e \in Execs, ok \in BOOLEAN : RunSummarySave(e, ok)
    \/ ContextLockExpires

(***************************************************************************)
(* process_batched_messages and Agent.add_usage: the batches of one agent  *)
(* (of different customers, on one instance or several) each work on       *)
(* their own session's copy of the agents row.                             *)
(***************************************************************************)
UsageInit ==
    /\ usage_stats = 0
    /\ usage_sum = 0
    /\ ub_pc = [b \in UsageBatches |-> "new"]
    /\ ub_copy = [b \in UsageBatches |-> 0]
    /\ ub_tokens = [b \in UsageBatches |-> 0]

\* the session loads the agents row: agents.get_by_id, and again on the
\* first attribute access after each commit of the session (the messages of
\* the batch are saved before the AI call, a tool may commit during it)
LoadAgent(b) ==
    /\ ub_pc[b] \in {"new", "loaded"}
    /\ ub_copy[b] # usage_stats \/ ub_pc[b] = "new"
    /\ ub_pc' = [ub_pc EXCEPT ![b] = "loaded"]
    /\ ub_copy' = [ub_copy EXCEPT ![b] = usage_stats]
    /\ UNCHANGED <<usage_stats, usage_sum, ub_tokens>>
    /\ UNCHANGED nonUsageVars

\* await ai.get_response returns; agent.add_usage adds to the copy
AddUsage(b, tokens) ==
    /\ ub_pc[b] = "loaded"
    /\ ub_pc' = [ub_pc EXCEPT ![b] = "added"]
    /\ ub_copy' = [ub_copy EXCEPT ![b] = @ + tokens]
    /\ ub_tokens' = [ub_tokens EXCEPT ![b] = tokens]
    /\ UNCHANGED <<usage_stats, usage_sum>>
    /\ UNCHANGED nonUsageVars

\* the next db.commit() of the session (messages.add of the reply) writes
\* the JSON column from the copy
CommitUsage(b) ==
    /\ ub_pc[b] = "added"
    /\ ub_pc' = [ub_pc EXCEPT ![b] = "done"]
    /\ usage_stats' = ub_copy[b]
    /\ usage_sum' = usage_sum + ub_tokens[b]
    /\ UNCHANGED <<ub_copy, ub_tokens>>
    /\ UNCHANGED nonUsageVars

UsageNext ==
    \/ \E b \in UsageBatches : LoadAgent(b)
    \/ \E b \in UsageBatches, tokens \in 1..MaxTokens : AddUsage(b, tokens)
    \/ \E b \in UsageBatches : CommitUsage(b)

(***************************************************************************)
(* message_buffer.py: add_message of one instance for one (agent, phone),  *)
(* with a key-value store that can become unreachable and reachable again  *)
(* at any time.  The store does not change during one call.                *)
(***************************************************************************)
DegInit ==
    /\ kv_up = TRUE
    /\ redis_pool = FALSE
    /\ redis_avail = "None"
    /\ deg_list = <<>>
    /\ deg_mem = <<>>
    /\ deg_timer = "none"
    /\ deg_accepted = {}
    /\ deg_delivered = {}

\* _get_redis: TRUE when it returns the connection, FALSE when it returns
\* None; the first call pings
GetRedis ==
    IF redis_avail = "False" THEN FALSE
    ELSE IF ~redis_pool THEN kv_up
    ELSE TRUE

\* _redis_available after _get_redis
AvailAfterGetRedis ==
    IF redis_avail # "False" /\ ~redis_pool THEN (IF kv_up THEN "True" ELSE "False")
    ELSE redis_avail

\* _add_message_redis: rpush, cancel the timer, process at max_messages or
\* start a timer; a command on an unreachable store raises out of
\* add_message
AddMessageRedis(m) ==
    IF kv_up
    THEN IF Len(deg_list) + 1 >= max_messages
         THEN /\ deg_delivered' = deg_delivered \cup Range(deg_list) \cup {m}
              /\ deg_list' = <<>>
              /\ deg_timer' = "none"
              /\ UNCHANGED deg_mem
         ELSE /\ deg_list' = Append(deg_list, m)
              /\ deg_timer' = "redis"
              /\ UNCHANGED <<deg_mem, deg_delivered>>
    ELSE UNCHANGED <<deg_list, deg_mem, deg_timer, deg_delivered>>

\* _add_message_memory
AddMessageMemory(m) ==
    IF Len(deg_mem) + 1 >= max_messages
    THEN /\ deg_delivered' = deg_delivered \cup Range(deg_mem) \cup {m}
         /\ deg_mem' = <<>>
         /\ deg_timer' = "none"
         /\ UNCHANGED deg_list
    ELSE /\ deg_mem' = Append(deg_mem, m)
         /\ deg_timer' = "memory"
         /\ UNCHANGED <<deg_list, deg_delivered>>

\* add_message for the next message of the customer
DegAddMessage(m) ==
    /\ m \notin deg_accepted
    /\ \A k \in DegMsgs : k < m => k \in deg_accepted
    /\ deg_accepted' = deg_accepted \cup {m}
    /\ redis_avail' = AvailAfterGetRedis
    /\ redis_pool' = (redis_pool \/ redis_avail # "False")
    /\ IF GetRedis THEN AddMessageRedis(m) ELSE AddMessageMemory(m)
    /\ UNCHANGED kv_up
    /\ UNCHANGED nonDegVars

\* the debounce task runs: _process_redis_buffer (its first command raises
\* when the store is unreachable and the task ends) or
\* _process_memory_buffer
DegTimerFires ==
    /\ deg_timer # "none"
    /\ deg_timer' = "none"
    /\ IF deg_timer = "memory"
         THEN /\ deg_delivered' = deg_delivered \cup Range(deg_mem)
              /\ deg_mem' = <<>>
              /\ UNCHANGED deg_list
         ELSE IF kv_up
         THEN /\ deg_delivered' = deg_delivered \cup Range(deg_list)
              /\ deg_list' = <<>>
              /\ UNCHANGED deg_mem
         ELSE UNCHANGED <<deg_list, deg_mem, deg_delivered>>
    /\ UNCHANGED <<kv_up, redis_pool, redis_avail, deg_accepted>>
    /\ UNCHANGED nonDegVars

\* r.expire(key, debounce_seconds + 60): the list is dropped when no timer
\* has emptied it
BufferKeyExpires ==
    /\ deg_list # <<>>
    /\ deg_timer # "redis"
    /\ deg_list' = <<>>
    /\ UNCHANGED <<kv_up, redis_pool, redis_avail, deg_mem, deg_timer, deg_accepted, deg_delivered>>
    /\ UNCHANGED nonDegVars

\* the store becomes unreachable
KvFails ==
    /\ kv_up
    /\ kv_up' = FALSE
    /\ UNCHANGED <<redis_pool, redis_avail, deg_list, deg_mem, deg_timer, deg_accepted, deg_delivered>>
    /\ UNCHANGED nonDegVars

\* the store is reachable again
KvRecovers ==
    /\ ~kv_up
    /\ kv_up' = TRUE
    /\ UNCHANGED <<redis_pool, redis_avail, deg_list, deg_mem, deg_timer, deg_accepted, deg_delivered>>
    /\ UNCHANGED nonDegVars

DegNext ==
    \/ \E m \in DegMsgs : DegAddMessage(m)
    \/ DegTimerFires
    \/ BufferKeyExpires
    \/ KvFails
    \/ KvRecovers

(***************************************************************************)
(* appointments.py book_appointment and reschedule_appointment on the      *)
(* appointments of one agent.  Each tool call runs in its own session (on  *)
(* one instance or on several); between its conflict query and its commit  *)
(* lie the awaits of _get_google_token and of the calendar API.            *)
(***************************************************************************)
BookInit ==
    /\ apt_rows = <<>>
    /\ bk_pc = [c \in BookCalls |-> "idle"]
    /\ bk_op = [c \in BookCalls |-> [id |-> 0, start_time |-> 0, end_time |-> 0]]
    /\ bk_result = [c \in BookCalls |-> "none"]

\* the conflict query: a scheduled appointment of the agent, other than
\* exclude, with start_time < end_time and end_time > start_time
ConflictQuery(rows, exclude, start_time, end_time) ==
    \E k \in 1..Len(rows) :
        /\ rows[k].status = "scheduled"
        /\ k # exclude
        /\ rows[k].start_time < end_time
        /\ rows[k].end_time > start_time

\* book_appointment up to 'if conflict: return None'
BookConflictQuery(c, start_time, duration_minutes) ==
    /\ bk_pc[c] = "idle"
    /\ Len(apt_rows) < MaxAptRows
    /\ LET end_time == start_time + duration_minutes
       IN IF ConflictQuery(apt_rows, 0, start_time, end_time)
             THEN /\ bk_result' = [bk_result EXCEPT ![c] = "conflict"]
                  /\ UNCHANGED <<bk_pc, bk_op>>
             ELSE /\ bk_pc' = [bk_pc EXCEPT ![c] = "book"]
                  /\ bk_op' = [bk_op EXCEPT ![c] = [id |-> 0, start_time |-> start_time,
                                                    end_time |-> end_time]]
                  /\ bk_result' = [bk_result EXCEPT ![c] = "none"]
    /\ UNCHANGED apt_rows
    /\ UNCHANGED nonBookVars

\* book_appointment: calendar event created (or not), db.add; db.commit
BookInsert(c) ==
    /\ bk_pc[c] = "book"
    /\ Len(apt_rows) < MaxAptRows
    /\ apt_rows' = Append(apt_rows, [start_time |-> bk_op[c].start_time,
                                     end_time |-> bk_op[c].end_time,
                                     status |-> "scheduled"])
    /\ bk_pc' = [bk_pc EXCEPT ![c] = "idle"]
    /\ bk_result' = [bk_result EXCEPT ![c] = "booked"]
    /\ bk_op' = [bk_op EXCEPT ![c] = [id |-> 0, start_time |-> 0, end_time |-> 0]]
    /\ UNCHANGED nonBookVars

\* reschedule_appointment of row a up to 'if conflict: return False'
RescheduleConflictQuery(c, a, new_start_time, duration) ==
    /\ bk_pc[c] = "idle"
    /\ a \in 1..Len(apt_rows)
    /\ apt_rows[a].status = "scheduled"
    /\ LET new_end_time == new_start_time + duration
       IN IF ConflictQuery(apt_rows, a, new_start_time, new_end_time)
             THEN /\ bk_result' = [bk_result EXCEPT ![c] = "conflict"]
                  /\ UNCHANGED <<bk_pc, bk_op>>
             ELSE /\ bk_pc' = [bk_pc EXCEPT ![c] = "reschedule"]
                  /\ bk_op' = [bk_op EXCEPT ![c] = [id |-> a, start_time |-> new_start_time,
                                                    end_time |-> new_end_time]]
                  /\ bk_result' = [bk_result EXCEPT ![c] = "none"]
    /\ UNCHANGED apt_rows
    /\ UNCHANGED nonBookVars

\* reschedule_appointment: calendar updated (or not), new times; db.commit
RescheduleCommit(c) ==
    /\ bk_pc[c] = "reschedule"
    /\ apt_rows' = [apt_rows EXCEPT ![bk_op[c].id].start_time = bk_op[c].start_time,
                                    ![bk_op[c].id].end_time = bk_op[c].end_time]
    /\ bk_pc' = [bk_pc EXCEPT ![c] = "idle"]
    /\ bk_result' = [bk_result EXCEPT ![c] = "moved"]
    /\ bk_op' = [bk_op EXCEPT ![c] = [id |-> 0, start_time |-> 0, end_time |-> 0]]
    /\ UNCHANGED nonBookVars

\* cancel_appointment: appointment.status = "cancelled"; db.commit
CancelAppointmentRow(a) ==
    /\ a \in 1..Len(apt_rows)
    /\ apt_rows[a].status = "scheduled"
    /\ apt_rows' = [apt_rows EXCEPT ![a].status = "cancelled"]
    /\ UNCHANGED <<bk_pc, bk_op, bk_result>>
    /\ UNCHANGED nonBookVars

BookNext ==
    \/ \E c \in BookCalls, start_time \in 0..MaxBookTime, duration_minutes \in 1..MaxDuration :
          BookConflictQuery(c, start_time, duration_minutes)
    \/ \E c \in BookCalls : BookInsert(c)
    \/ \E c \in BookCalls, a \in 1..MaxAptRows, new_start_time \in 0..MaxBookTime,
          duration \in 1..MaxDuration : RescheduleConflictQuery(c, a, new_start_time, duration)
    \/ \E c \in BookCalls : RescheduleCommit(c)
    \/ \E a \in 1..MaxAptRows : CancelAppointmentRow(a)

(***************************************************************************)
(* cancel_appointment of a scheduled appointment whose reminders are due,  *)
(* against the executions of process_pending_reminders.  send_reminder     *)
(* reads the appointment, then awaits build_reminder_content (an AI call   *)
(* for AI reminders) and the provider send, then sets the row's status.    *)
(***************************************************************************)
CxlInit ==
    /\ cxl_status = "scheduled"
    /\ cxl_rows = [r \in CxlRows |-> "pending"]
    /\ cxl_pc = "idle"
    /\ cxl_epc = [e \in Execs |-> "idle"]
    /\ cxl_list = [e \in Execs |-> <<>>]

\* cancel_appointment: cancel_reminders_for_appointment
CancelPendingReminders ==
    /\ cxl_pc = "idle"
    /\ cxl_rows' = [r \in CxlRows |-> IF cxl_rows[r] = "pending" THEN "cancelled" ELSE cxl_rows[r]]
    /\ cxl_pc' = "reminders_cancelled"
    /\ UNCHANGED <<cxl_status, cxl_epc, cxl_list>>
    /\ UNCHANGED nonCxlVars

\* cancel_appointment: calendar event deleted (or none), status = "cancelled",
\* commit; the webhook is sent and the function returns
CancelStatusCommitted ==
    /\ cxl_pc = "reminders_cancelled"
    /\ cxl_status' = "cancelled"
    /\ cxl_pc' = "returned"
    /\ UNCHANGED <<cxl_rows, cxl_epc, cxl_list>>
    /\ UNCHANGED nonCxlVars

\* a scheduler cycle calls process_pending_reminders
CxlStartProcess(e) ==
    /\ cxl_epc[e] = "idle"
    /\ cxl_epc' = [cxl_epc EXCEPT ![e] = "fetch"]
    /\ UNCHANGED <<cxl_status, cxl_rows, cxl_pc, cxl_list>>
    /\ UNCHANGED nonCxlVars

\* top of 'while True': the query for pending due rows; none ends the loop
CxlFetchPending(e) ==
    /\ cxl_epc[e] = "fetch"
    /\ LET pending == {r \in CxlRows : cxl_rows[r] = "pending"}
       IN /\ cxl_list' = [cxl_list EXCEPT ![e] = SortedSeq(pending)]
          /\ cxl_epc' = [cxl_epc EXCEPT ![e] = IF pending = {} THEN "idle" ELSE "claim"]
    /\ UNCHANGED <<cxl_status, cxl_rows, cxl_pc>>
    /\ UNCHANGED nonCxlVars

\* for reminder in pending: reminder.status = "processing"; db.commit()
CxlMarkProcessing(e) ==
    /\ cxl_epc[e] = "claim"
    /\ cxl_rows' = [cxl_rows EXCEPT ![Head(cxl_list[e])] = "processing"]
    /\ cxl_epc' = [cxl_epc EXCEPT ![e] = "check"]
    /\ UNCHANGED <<cxl_status, cxl_pc, cxl_list>>
    /\ UNCHANGED nonCxlVars

\* the position of execution e after the row at the head of its list
AfterRow(e) == IF Len(cxl_list[e]) = 1 THEN "fetch" ELSE "claim"

\* send_reminder: the appointment is loaded; a status other than scheduled
\* cancels the row and returns
SendReminderLoad(e) ==
    /\ cxl_epc[e] = "check"
    /\ IF cxl_status # "scheduled"
          THEN /\ cxl_rows' = [cxl_rows EXCEPT ![Head(cxl_list[e])] = "cancelled"]
               /\ cxl_list' = [cxl_list EXCEPT ![e] = Tail(@)]
               /\ cxl_epc' = [cxl_epc EXCEPT ![e] = AfterRow(e)]
          ELSE /\ cxl_epc' = [cxl_epc EXCEPT ![e] = "send"]
               /\ UNCHANGED <<cxl_rows, cxl_list>>
    /\ UNCHANGED <<cxl_status, cxl_pc>>
    /\ UNCHANGED nonCxlVars

\* send_reminder: build_reminder_content and _send_to_customer have
\* returned; ok is the outcome of the send
SendReminderDeliver(e, ok) ==
    /\ cxl_epc[e] = "send"
    /\ cxl_rows' = [cxl_rows EXCEPT ![Head(cxl_list[e])] = IF ok THEN "sent" ELSE "failed"]
    /\ cxl_list' = [cxl_list EXCEPT ![e] = Tail(@)]
    /\ cxl_epc' = [cxl_epc EXCEPT ![e] = AfterRow(e)]
    /\ UNCHANGED <<cxl_status, cxl_pc>>
    /\ UNCHANGED nonCxlVars

CxlNext ==
    \/ CancelPendingReminders
    \/ CancelStatusCommitted
    \/ \E e \in Execs : CxlStartProcess(e)
    \/ \E e \in Execs : CxlFetchPending(e)
    \/ \E e \in Execs : CxlMarkProcessing(e)
    \/ \E e \in Execs : SendReminderLoad(e)
    \/ \E e \in Execs, ok \in BOOLEAN : SendReminderDeliver(e, ok)

(***************************************************************************)
(* The tool loop of get_response: AnthropicProvider.get_response and       *)
(* ai.get_response ("anthropic"), OpenAIProvider.get_response ("openai")   *)
(* and GeminiProvider.get_response ("google").  A tool call is identified  *)
(* by its position in the completion; the result of the handler for call   *)
(* k is [name, of |-> k].                                                  *)
(***************************************************************************)
ToolInit ==
    /\ tool_provider = "none"
    /\ max_tool_rounds = 0
    /\ tool_calls = <<>>
    /\ handler_calls = 0
    /\ tool_results = <<>>
    /\ media_actions = <<>>

\* tools.py handle_tool_calls: one {name, result} per call, in call order
HandleToolCalls(calls) == [k \in 1..Len(calls) |-> [name |-> calls[k], of |-> k]]

\* the result the loop gives to call k: the Anthropic loops take the first
\* result with the name of the call, the OpenAI and Gemini loops take the
\* result at the position of the call
ResultFor(provider, results, calls, k) ==
    IF provider = "anthropic"
    THEN results[CHOOSE j \in 1..Len(results) :
                     /\ results[j].name = calls[k]
                     /\ \A h \in 1..(j - 1) : results[h].name # calls[k]]
    ELSE results[k]

\* media_actions.append for every call whose result is a send_media action
RECURSIVE AppendMedia(_, _, _, _)
AppendMedia(provider, results, calls, k) ==
    IF k > Len(calls) THEN <<>>
    ELSE (IF ResultFor(provider, results, calls, k).name = "send_media"
             THEN <<ResultFor(provider, results, calls, k).of>>
             ELSE <<>>) \o AppendMedia(provider, results, calls, k + 1)

\* get_response up to the loop: the first completion
GetResponseStart(provider, completion) ==
    /\ tool_provider = "none"
    /\ tool_provider' = provider
    /\ max_tool_rounds' = ToolRoundCap
    /\ tool_calls' = completion
    /\ handler_calls' = 0
    /\ tool_results' = <<>>
    /\ media_actions' = <<>>
    /\ UNCHANGED nonToolVars

\* one pass of the while loop: the handler runs the calls, every call gets
\* a result, the next completion is requested
ToolRound(completion) ==
    /\ tool_provider # "none"
    /\ tool_calls # <<>>
    /\ max_tool_rounds > 0
    /\ max_tool_rounds' = max_tool_rounds - 1
    /\ handler_calls' = handler_calls + 1
    /\ LET results == HandleToolCalls(tool_calls)
       IN  /\ tool_results' = [k \in 1..Len(tool_calls) |->
                                  ResultFor(tool_provider, results, tool_calls, k).of]
           /\ media_actions' = AppendMedia(tool_provider, results, tool_calls, 1)
    /\ tool_calls' = completion
    /\ UNCHANGED tool_provider
    /\ UNCHANGED nonToolVars

\* the loop condition is false: get_response returns
GetResponseReturns ==
    /\ tool_provider # "none"
    /\ tool_calls = <<>> \/ max_tool_rounds = 0
    /\ tool_provider' = "none"
    /\ tool_calls' = <<>>
    /\ UNCHANGED <<max_tool_rounds, handler_calls, tool_results, media_actions>>
    /\ UNCHANGED nonToolVars

ToolNext ==
    \/ \E provider \in ToolProviders, completion \in Completions : GetResponseStart(provider, completion)
    \/ \E completion \in Completions : ToolRound(completion)
    \/ GetResponseReturns

(***************************************************************************)
(* appointments.py book_appointment: the effects of one call, in the order *)
(* in which the function makes them: "calendar_event" (calendar            *)
(* .create_event returned an id), "insert" (the appointment is committed), *)
(* "webhook" (send_webhook POSTs appointment.created) and "reminders"      *)
(* (create_reminders_for_appointment).                                     *)
(***************************************************************************)
EffectsInit ==
    /\ fx_pc = [c \in BookCalls |-> "start"]
    /\ fx_cfg = [c \in BookCalls |-> [google |-> FALSE, webhook_url |-> FALSE]]
    /\ fx_log = [c \in BookCalls |-> <<>>]

\* get_calendar_config and the conflict query: a conflict returns None
BookCheckConflict(c, conflict, google, webhook_url) ==
    /\ fx_pc[c] = "start"
    /\ fx_pc' = [fx_pc EXCEPT ![c] = IF conflict THEN "none" ELSE "calendar"]
    /\ fx_cfg' = [fx_cfg EXCEPT ![c] = [google |-> google, webhook_url |-> webhook_url]]
    /\ UNCHANGED fx_log
    /\ UNCHANGED nonEffectsVars

\* _get_google_token and calendar.create_event: best effort, a failure
\* leaves google_event_id None
BookCreateEvent(c, ok) ==
    /\ fx_pc[c] = "calendar"
    /\ fx_log' = [fx_log EXCEPT ![c] = IF fx_cfg[c].google /\ ok
                                          THEN Append(@, "calendar_event") ELSE @]
    /\ fx_pc' = [fx_pc EXCEPT ![c] = "insert"]
    /\ UNCHANGED fx_cfg
    /\ UNCHANGED nonEffectsVars

\* db.add, db.commit, db.refresh; an exception rolls back and returns None
BookCommit(c, ok) ==
    /\ fx_pc[c] = "insert"
    /\ fx_log' = [fx_log EXCEPT ![c] = IF ok THEN Append(@, "insert") ELSE @]
    /\ fx_pc' = [fx_pc EXCEPT ![c] = IF ok THEN "webhook" ELSE "none"]
    /\ UNCHANGED fx_cfg
    /\ UNCHANGED nonEffectsVars

\* await send_webhook(agent, appointment, "appointment.created", db): no
\* POST without a webhook_url; raises is an exception outside the try block
\* around the POST (the queries and the summary of
\* _generate_appointment_summary), which leaves book_appointment
BookSendWebhook(c, raises) ==
    /\ fx_pc[c] = "webhook"
    /\ IF raises
          THEN /\ fx_pc' = [fx_pc EXCEPT ![c] = "raised"]
               /\ UNCHANGED fx_log
          ELSE /\ fx_log' = [fx_log EXCEPT ![c] = IF fx_cfg[c].webhook_url
                                                     THEN Append(@, "webhook") ELSE @]
               /\ fx_pc' = [fx_pc EXCEPT ![c] = "reminders"]
    /\ UNCHANGED fx_cfg
    /\ UNCHANGED nonEffectsVars

\* create_reminders_for_appointment; return appointment
BookMaterializeReminders(c) ==
    /\ fx_pc[c] = "reminders"
    /\ fx_log' = [fx_log EXCEPT ![c] = Append(@, "reminders")]
    /\ fx_pc' = [fx_pc EXCEPT ![c] = "returned"]
    /\ UNCHANGED fx_cfg
    /\ UNCHANGED nonEffectsVars

EffectsNext ==
    \/ \E c \in BookCalls, conflict, google, webhook_url \in BOOLEAN :
          BookCheckConflict(c, conflict, google, webhook_url)
    \/ \E c \in BookCalls, ok \in BOOLEAN : BookCreateEvent(c, ok)
    \/ \E c \in BookCalls, ok \in BOOLEAN : BookCommit(c, ok)
    \/ \E c \in BookCalls, raises \in BOOLEAN : BookSendWebhook(c, raises)
    \/ \E c \in BookCalls : BookMaterializeReminders(c)

(***************************************************************************)
(* context_summary/runner.py: the runs of run_summary for one conversation *)
(* in sequence (each under the conversation's lock), numbered by the       *)
(* summaries saved: run k is the k-th run that reaches _save_summary.      *)
(***************************************************************************)
EveryInit ==
    /\ every_row = NoRow
    /\ every_pc = "idle"
    /\ every_is_full = FALSE
    /\ every_runs = 0
    /\ every_attempts = 0
    /\ every_full = {}

\* _save_summary: incremental_count of the row after the save
SavedIncrementalCount(row, is_full) ==
    IF row = NoRow THEN 1
    ELSE IF is_full THEN 0 ELSE row + 1

\* run_summary up to the LLM call: is_full from the row's incremental_count
\* (0 without a row)
EveryRunStart ==
    /\ every_pc = "idle"
    /\ every_runs < MaxSummaryRuns
    /\ every_attempts < MaxSummaryAttempts
    /\ every_pc' = "llm"
    /\ every_is_full' = ShouldDoFullSummary(IF every_row = NoRow THEN 0 ELSE every_row)
    /\ every_attempts' = every_attempts + 1
    /\ UNCHANGED <<every_row, every_runs, every_full>>
    /\ UNCHANGED nonEveryVars

\* the LLM answers: an empty summary raises ValueError and nothing is
\* saved, otherwise _save_summary
EveryRunSave(ok) ==
    /\ every_pc = "llm"
    /\ every_pc' = "idle"
    /\ every_is_full' = FALSE
    /\ IF ok
          THEN /\ every_row' = SavedIncrementalCount(every_row, every_is_full)
               /\ every_runs' = every_runs + 1
               /\ every_full' = IF every_is_full THEN every_full \cup {every_runs + 1}
                                ELSE every_full
          ELSE UNCHANGED <<every_row, every_runs, every_full>>
    /\ UNCHANGED every_attempts
    /\ UNCHANGED nonEveryVars

EveryNext ==
    \/ EveryRunStart
    \/ \E ok \in BOOLEAN : EveryRunSave(ok)

Init == BufInit /\ DedupInit /\ SchedInit /\ RemInit /\ FuInit /\ SumInit /\ BurstInit /\ MemInit /\ MetaInit /\ StampInit /\ SeqInit /\ HookInit /\ KeyInit /\ CtxInit /\ UsageInit /\ DegInit /\ BookInit /\ CxlInit /\ ToolInit /\ EffectsInit /\ EveryInit

Next ==
    \/ BufNext
    \/ DedupNext
    \/ SchedNext
    \/ RemNext
    \/ FuNext
    \/ SumNext
    \/ BurstNext
    \/ MemNext
    \/ MetaNext
    \/ StampNext
    \/ SeqNext
    \/ HookNext
    \/ KeyNext
    \/ CtxNext
    \/ UsageNext
    \/ DegNext
    \/ BookNext
    \/ CxlNext
    \/ ToolNext
    \/ EffectsNext
    \/ EveryNext

Spec == Init /\ [][Next]_vars

SpecBuffer == Init /\ [][BufNext]_vars

SpecDedup == Init /\ [][DedupNext]_vars

SpecSched == Init /\ [][SchedNext]_vars

SpecRem == Init /\ [][RemNext]_vars

SpecFu == Init /\ [][FuNext]_vars

SpecSum == Init /\ [][SumNext]_vars

SpecBurst == Init /\ [][BurstNext]_vars

SpecMem == Init /\ [][MemNext]_vars

SpecMeta == Init /\ [][MetaNext]_vars

SpecStamp == Init /\ [][StampNext]_vars

SpecSeq == Init /\ [][SeqNext]_vars

SpecHook == Init /\ [][HookNext]_vars

SpecKey == Init /\ [][KeyNext]_vars

SpecCtx == Init /\ [][CtxNext]_vars

SpecUsage == Init /\ [][UsageNext]_vars

SpecDeg == Init /\ [][DegNext]_vars

SpecBook == Init /\ [][BookNext]_vars

SpecCxl == Init /\ [][CxlNext]_vars

SpecTool == Init /\ [][ToolNext]_vars

SpecEffects == Init /\ [][EffectsNext]_vars

SpecEvery == Init /\ [][EveryNext]_vars

\* messages handed to process_callback so far
FlushedMsgs == UNION {Range(flushed[k]) : k \in 1..Len(flushed)}

\* messages accepted by add_message (rpush done)
Accepted == {m \in Msgs : pc[m] # "new"}

(***************************************************************************)
(* C1: atomic drain.  Every message removed from the buffer by a drain is  *)
(* in the batch that drain passes to process_callback, and no message is   *)
(* in two flushed batches.                                                 *)
(***************************************************************************)
C1_AtomicDrain ==
    /\ \A x \in Msgs : removedBy[x] # 0 => x \in Range(batch[removedBy[x]])
    /\ \A j, k \in 1..Len(flushed) : j # k => Range(flushed[j]) \cap Range(flushed[k]) = {}

(***************************************************************************)
(* C10: eventual flush, in the form a finite run refutes.  When every      *)
(* add_message call has returned and no timer or drain is left, every      *)
(* accepted message has been passed to process_callback.  Messages that a  *)
(* drain deleted without reading them (C1) are left aside, so a violation  *)
(* is a message that nothing is left to flush.                             *)
(***************************************************************************)
C10_EventualFlush ==
    BufQuiescent => \A m \in Accepted : m \in FlushedMsgs \/ removedBy[m] # 0

(***************************************************************************)
(* C2: of two webhook requests that carry the same logical message id and  *)
(* arrive within the dedup window of each other, at most one dispatches    *)
(* the event for processing.                                               *)
(***************************************************************************)
C2_AtMostOneDispatch ==
    \A r1, r2 \in dispatched :
        (r1 # r2 /\ rid[r1] = rid[r2]) =>
            (rat[r1] - rat[r2] > DEDUP_TTL_MINUTES \/ rat[r2] - rat[r1] > DEDUP_TTL_MINUTES)

(***************************************************************************)
(* C3: while the shared store is reachable, at most one instance at a time *)
(* is executing a scheduler cycle.                                         *)
(***************************************************************************)
C3_OneCycleAtATime ==
    ~store_was_down => Cardinality({i \in Instances : spc[i] = "cycle"}) <= 1

(***************************************************************************)
(* C4: no reminder is sent twice: at most one provider send is made for a  *)
(* ScheduledReminder row, however two executions of                        *)
(* process_pending_reminders interleave.                                   *)
(***************************************************************************)
C4_NoDoubleSend == \A r \in 1..MaxRows : provider_sends[r] <= 1

\* the rows of (appointment a, rule idx) that have reached sent
SentRows(a, idx) ==
    {r \in ever_sent : reminders[r].appointment_id = a /\ reminders[r].rule_index = idx}

(***************************************************************************)
(* C5 as stated: for every (appointment_id, rule_index) at most one        *)
(* ScheduledReminder row ever reaches sent.                                *)
(***************************************************************************)
C5_OneSentPerRule ==
    \A a \in Apts, idx \in RuleIdx : Cardinality(SentRows(a, idx)) <= 1

(***************************************************************************)
(* C5 amended: for every (appointment_id, rule_index) at most one row      *)
(* reaches sent per materialization of the appointment's reminders, that   *)
(* is at most one for the booking plus one for each completed reschedule.  *)
(***************************************************************************)
C5_OneSentPerMaterialization ==
    \A a \in Apts, idx \in RuleIdx : Cardinality(SentRows(a, idx)) <= 1 + reschedules[a]

\* a rescheduled appointment has two sent rows of the same rule
C5_Witness ==
    \E a \in Apts, idx \in RuleIdx :
        reschedules[a] = 1 /\ Cardinality(SentRows(a, idx)) = 2

\* the terminal statuses of a follow-up row
TerminalFollowup == {"sent", "skipped", "cancelled"}

(***************************************************************************)
(* C6: once a ScheduledFollowup row is in a terminal status (sent, skipped *)
(* or cancelled) no step changes its status.                               *)
(***************************************************************************)
C6_TerminalIsFinal ==
    [][\A r \in FuRowIds :
          followups[r].status \in TerminalFollowup =>
              followups'[r].status = followups[r].status]_vars

(***************************************************************************)
(* C7: a follow-up row that was pending or evaluating when a customer      *)
(* message was processed ends in status cancelled, and no follow-up row    *)
(* created before a customer message is sent after it.                     *)
(***************************************************************************)
C7_InboundCancels ==
    /\ \A r \in cancel_seen : tpc[r] \in {"none", "done"} => followups[r].status = "cancelled"
    /\ sent_after_inbound = {}

(***************************************************************************)
(* C8: while is_paused or opted_out is set on the conversation, no AI      *)
(* reply and no follow-up is sent to the customer, whatever batch or       *)
(* follow-up is in progress when the flag is set.                          *)
(***************************************************************************)
C8_NoOutboundWhileFlagged == ~reply_while_flagged /\ ~followup_while_flagged

(***************************************************************************)
(* C9: for every (conversation_id, last_message_at) at most one            *)
(* ConversationSummary row exists, whichever path inserts (the scheduler's *)
(* create_and_send_summary or the appointment webhook's inline summary)    *)
(* and however the executions interleave.                                  *)
(***************************************************************************)
C9_OneSummaryPerWindow ==
    \A j, k \in 1..Len(summaries) : j # k => summaries[j] # summaries[k]

\* both paths have lost an insert to the constraint, and the rows they raced
\* for exist
C9_Witness ==
    /\ \E x \in sum_rejected : x[1] = "scheduler" /\ x[2] \in Range(summaries)
    /\ \E x \in sum_rejected : x[1] = "appointment" /\ x[2] \in Range(summaries)

\* the burst is over: no message can join it and no task or callback is left
BurstOver ==
    /\ burst_count >= 1
    /\ burst_now >= burst_last + debounce_seconds
    /\ \A i \in Instances : burst_timer[i] = 0
    /\ burst_lock = 0

(***************************************************************************)
(* C11: a burst of k < max_batch messages, each less than debounce_seconds *)
(* after the one before, gives exactly one process_callback invocation,    *)
(* not earlier than debounce_seconds after the last message, with all k    *)
(* messages in arrival order, on whichever instances the messages arrive.  *)
(***************************************************************************)
C11_BurstOneCallback ==
    (BurstOver /\ burst_count < burst_max_messages) =>
        /\ Len(callbacks) = 1
        /\ callbacks[1].msgs = [k \in 1..burst_count |-> k]
        /\ callbacks[1].at >= burst_last + debounce_seconds

\* a drain is between its SET NX and its callback
DrainInProgress == \E k \in Msgs : pc[k] \in {"setnx", "lrange", "delete"}

(***************************************************************************)
(* C12: an add_message call that makes the list reach max_messages flushes *)
(* it itself: once the call has returned and no drain is in progress, the  *)
(* message it added has been handed to process_callback, with no debounce  *)
(* timer needed.  (A message deleted unread by another drain is C1's case  *)
(* and is left out.)                                                       *)
(***************************************************************************)
C12_MaxFlushesAtOnce ==
    \A m \in Msgs :
        (count[m] >= max_messages /\ pc[m] = "done" /\ ~DrainInProgress) =>
            (m \in FlushedMsgs \/ removedBy[m] # 0)

(***************************************************************************)
(* C13: if batch B1 of a pair is drained before batch B2, the messages of  *)
(* B1 are saved and B1's reply is sent before any message of B2 is saved   *)
(* or B2's reply is sent (here: the in-memory fallback).                   *)
(***************************************************************************)
C13_BatchesInOrder ==
    \A p, q \in 1..Len(mem_log) : p < q => mem_log[p].batch <= mem_log[q].batch

(***************************************************************************)
(* C14: posting the same Meta webhook body a second time, after the first  *)
(* post was accepted and within the 5-minute dedup window, is answered     *)
(* with duplicate = true and dispatches nothing.                           *)
(***************************************************************************)
C14_ReplayIsDuplicate ==
    \A p, q \in 1..Len(posts) :
        (p < q /\ posts[p].body = posts[q].body /\ ~posts[p].duplicate
              /\ posts[q].at - posts[p].at < DEDUP_TTL_MINUTES)
            => posts[q].duplicate

(***************************************************************************)
(* C15: every dispatched inbound event has a ProcessedMessage row with its *)
(* id from its dispatch until at least 5 minutes later: no event is        *)
(* dispatched without its id recorded and the cleanup deletes no entry     *)
(* younger than 5 minutes.  (rat[r] is the time of the request's SELECT,   *)
(* not later than its dispatch.)                                           *)
(***************************************************************************)
C15_RecordedForTtl ==
    \A r \in dispatched :
        dnow - rat[r] <= DEDUP_TTL_MINUTES => rid[r] \in ProcessedIds

(***************************************************************************)
(* C16: the scheduler never deletes scheduler:lock: while the key exists   *)
(* (set, and its 180 s not yet over) no operation of the scheduler,        *)
(* shutdown included, removes or changes it; it disappears only by expiry. *)
(***************************************************************************)
C16_LockOnlyExpires ==
    [][(SchedulerLockSet /\ snow' = snow) => scheduler_lock' = scheduler_lock]_vars

(***************************************************************************)
(* C17: with the store reachable and a scheduler loop running, whatever    *)
(* becomes due is acted on by a cycle that starts within one               *)
(* CHECK_INTERVAL (one clock unit).                                        *)
(***************************************************************************)
C17_BoundedLatency ==
    (~store_was_down /\ due # NoDue /\ ~due.acted) => snow - due.at <= 1

(***************************************************************************)
(* C18: an exception raised in a step of a scheduler cycle does not end    *)
(* the loop: once an instance has logged a cycle error, and as long as its *)
(* scheduler is running, its loop is sleeping for at most one              *)
(* CHECK_INTERVAL, attempting the next tick, or in a later cycle.          *)
(***************************************************************************)
C18_LoopSurvivesException ==
    \A i \in Instances :
        (cycle_error[i] /\ running[i]) =>
            /\ spc[i] \in {"sleep", "tick", "cycle"}
            /\ spc[i] = "sleep" => wake[i] <= snow + 1

\* a loop that logged a cycle error has slept one interval and attempts the
\* next tick
C18_Witness ==
    \E i \in Instances :
        cycle_error[i] /\ running[i] /\ spc[i] = "tick" /\ wake[i] = snow /\ snow >= 1

\* the status changes the lifecycle of a ScheduledReminder row allows
ReminderTransitions ==
    {<<"pending", "processing">>, <<"processing", "sent">>,
     <<"processing", "failed">>, <<"pending", "cancelled">>}

(***************************************************************************)
(* C19: every status change of a ScheduledReminder row is pending ->       *)
(* processing, processing -> sent, processing -> failed or pending ->      *)
(* cancelled; sent, failed and cancelled rows never change again.          *)
(***************************************************************************)
C19_ReminderLifecycle ==
    [][\A r \in RowIds :
          \/ reminders'[r].status = reminders[r].status
          \/ <<reminders[r].status, reminders'[r].status>> \in ReminderTransitions]_vars

\* process_pending_followups has returned: it is not inside a batch and its
\* query finds no pending row that is due
ProcessPendingFollowupsReturned ==
    /\ fupc = "idle"
    /\ \A r \in FuRowIds : ~(followups[r].status = "pending" /\ followups[r].due)

(***************************************************************************)
(* C20: after process_pending_followups has returned, no row is left in    *)
(* status evaluating: every row it flipped is sent, skipped or cancelled,  *)
(* also when _process_single raised.                                       *)
(***************************************************************************)
C20_NoneLeftEvaluating ==
    ProcessPendingFollowupsReturned =>
        \A r \in FuRowIds : followups[r].status # "evaluating"

(***************************************************************************)
(* C21: last_customer_message_at of a conversation never decreases,        *)
(* however the batches of the conversation interleave on one or several    *)
(* instances.                                                              *)
(***************************************************************************)
C21_LastCustomerMessageMonotonic ==
    [][lcm_column' >= lcm_column]_vars

(***************************************************************************)
(* C22: when the opt_out_conversation tool runs, opted_out becomes true;   *)
(* it goes back to false only in the step that processes an inbound        *)
(* customer message of the conversation, and every such step leaves it     *)
(* false.                                                                  *)
(***************************************************************************)
C22_OptOutLifecycle ==
    [][/\ \A b \in Batches, text \in BOOLEAN : AiResponds(b, TRUE, text) => conv'.opted_out
       /\ (conv.opted_out /\ ~conv'.opted_out) => \E b \in Batches : ProcessBatchStart(b)
       /\ \A b \in Batches : ProcessBatchStart(b) => ~conv'.opted_out]_vars

\* the tool has run in a finished AI call, the flag is set and an inbound
\* message is still to be processed
C22_Witness ==
    /\ conv.opted_out
    /\ \E b \in Batches : bpc[b] \in {"reply", "done"}
    /\ \E b \in Batches : bpc[b] = "new"

(***************************************************************************)
(* C23: with a follow-up sequence of length max_followups and a silent     *)
(* customer, at most max_followups follow-ups are sent for the             *)
(* conversation, and once that many are sent no further row is scheduled.  *)
(***************************************************************************)
C23_SequenceExhausts ==
    /\ CountStatus(seq_rows, {"sent"}) <= max_followups
    /\ CountStatus(seq_rows, {"sent"}) = max_followups =>
           CountStatus(seq_rows, {"pending", "evaluating"}) = 0

\* the executions of create_and_send_summary that made a POST
HookPosters == {hook_posts[k].id : k \in {j \in 1..Len(hook_posts) : hook_posts[j].by = "create"}}

(***************************************************************************)
(* C24: of the executions of create_and_send_summary for one               *)
(* (conversation, last_message_at), exactly one stores the row, goes on to *)
(* _try_send_webhook and returns the row, and it alone POSTs the webhook   *)
(* (it does when its config has a webhook_url, and returns the row unless  *)
(* _try_send_webhook raises); an execution whose commit meets the row of   *)
(* another returns None and POSTs nothing; at most one row exists.         *)
(***************************************************************************)
C24_InsertRaceOneWinner ==
    /\ Len(hook_rows) <= 1
    /\ Cardinality({t \in SumTasks : hk_pc[t] \in {"send", "post", "returned_row", "raised"}}) = Len(hook_rows)
    /\ HookPosters \subseteq {t \in SumTasks : hk_pc[t] \in {"post", "returned_row", "raised"}}
    /\ \A t \in SumTasks : (hk_pc[t] = "returned_row" /\ hk_url[t]) => t \in HookPosters
    /\ \A t \in SumTasks : hk_pc[t] = "none_conflict" =>
           /\ Len(hook_rows) = 1
           /\ t \notin HookPosters

\* both executions passed the query, one returned the row after its POST and
\* the other returned None from the IntegrityError handler
C24_Witness ==
    \E t, u \in SumTasks :
        /\ hk_pc[t] = "returned_row"
        /\ t \in HookPosters
        /\ hk_pc[u] = "none_conflict"
        /\ Len(hook_rows) = 1

(***************************************************************************)
(* C25: webhook_attempts never exceeds webhook_retry_count, a row at the   *)
(* retry count with no POST in flight is not pending, the webhook of the   *)
(* row is POSTed at most webhook_retry_count times, and every POST is made *)
(* while the row is pending.                                               *)
(***************************************************************************)
C25_BoundedWebhookRetries ==
    /\ Len(hook_posts) <= webhook_retry_count
    /\ \A k \in 1..Len(hook_posts) : hook_posts[k].status = "pending"
    /\ \A r \in 1..Len(hook_rows) :
           /\ hook_rows[r].attempts <= webhook_retry_count
           /\ (hook_rows[r].attempts >= webhook_retry_count
                 /\ \A e \in Execs : rt_pc[e] = "idle") => hook_rows[r].status # "pending"

C27_OverrideNeverMarks ==
    [][\A r \in KeyCalls :
          (/\ IsOverrideKey(call_key[r], call_custom[r])
           /\ \/ AuthFailed(r)
              \/ \E retry_after \in RetryAfters, jitter \in Jitters :
                     RateLimited(r, retry_after, jitter))
          => (available_at' = available_at /\ key_dead' = key_dead)]_vars

(***************************************************************************)
(* C28: last_message_id_covered never decreases, the id a run is about to  *)
(* record is the largest message id at its start, and every message with   *)
(* id <= last_message_id_covered was in the prompt of a run that saved.    *)
(***************************************************************************)
C28_CoveredIdMonotonic ==
    [][/\ ctx_covered' >= ctx_covered
       /\ \A e \in Execs : RunSummaryStart(e) => \A m \in Visible : add_id[m] <= run_last'[e]
       /\ \A m \in CtxMsgs : (add_id'[m] > 0 /\ add_id'[m] <= ctx_covered') => add_id'[m] \in ctx_inputs']_vars

(***************************************************************************)
(* C29: whenever no batch of the agent is between its add_usage and its    *)
(* commit, the counter equals its initial value plus the sum of the usage  *)
(* of all the batches processed so far: no update is lost.                 *)
(***************************************************************************)
C29_NoUsageUpdateLost ==
    (\A b \in UsageBatches : ub_pc[b] # "added") => usage_stats = usage_sum

(***************************************************************************)
(* C30: no accepted message is lost, whatever the store does: every        *)
(* message add_message was called with has been delivered to               *)
(* process_callback or is still in the Redis list or in the in-process     *)
(* buffer.                                                                 *)
(***************************************************************************)
C30_NoAcceptedMessageLost ==
    deg_accepted \subseteq (deg_delivered \cup Range(deg_list) \cup Range(deg_mem))

\* the drains that have won the gate and still read the list, clear it or
\* run process_callback
GateHolders == {m \in Msgs : pc[m] \in {"lrange", "delete", "callback"}}

(***************************************************************************)
(* C31: drain-gate mutual exclusion.  While a drain that won               *)
(* msg_lock:{agent}:{phone} is still draining the list or running          *)
(* process_callback no other drain of the pair is past the gate, and a     *)
(* drain deletes the gate (in its finally clause) only while the gate is   *)
(* the one it set.                                                         *)
(***************************************************************************)
C31_DrainGateMutualExclusion ==
    [][/\ Cardinality(GateHolders') <= 1
       /\ \A m \in Msgs : (CallbackReturns(m) \/ (ReadBuffer(m) /\ redis_buffer = <<>>))
                              => redis_lock = m]_vars

(***************************************************************************)
(* C32: no two appointments of the agent with status scheduled have        *)
(* overlapping [start, end) intervals, however concurrent book_appointment *)
(* and reschedule_appointment calls interleave.                            *)
(***************************************************************************)
C32_NoOverlappingScheduled ==
    \A j, k \in 1..Len(apt_rows) :
        (j # k /\ apt_rows[j].status = "scheduled" /\ apt_rows[k].status = "scheduled")
            => (apt_rows[j].end_time <= apt_rows[k].start_time
                \/ apt_rows[k].end_time <= apt_rows[j].start_time)

(***************************************************************************)
(* C33: once cancel_appointment has returned for an appointment none of    *)
(* its reminders is pending and none of them becomes sent afterwards, a    *)
(* reminder the scheduler had already picked up included.                  *)
(***************************************************************************)
C33_NoReminderAfterCancel ==
    [][cxl_pc = "returned" =>
          \A r \in CxlRows : /\ cxl_rows[r] # "pending"
                             /\ cxl_rows'[r] = "sent" => cxl_rows[r] = "sent"]_vars

\* an execution of create_and_send_summary or of retry_pending_webhooks is
\* inside _try_send_webhook
TrySendInProgress ==
    \/ \E t \in SumTasks : hk_pc[t] \in {"send", "post"}
    \/ \E e \in Execs : rt_pc[e] = "post"

(***************************************************************************)
(* C34: every ConversationSummary row inserted as pending reaches sent or  *)
(* failed while scheduler cycles keep running, in the form a finite run    *)
(* refutes: a pending row that no execution is delivering at the moment is *)
(* one the query of retry_pending_webhooks selects once its next_retry_at  *)
(* has passed (webhook_attempts > 0).                                      *)
(***************************************************************************)
C34_PendingRowIsRetried ==
    \A r \in 1..Len(hook_rows) :
        (hook_rows[r].status = "pending" /\ ~TrySendInProgress) => hook_rows[r].attempts > 0

(***************************************************************************)
(* C35: two distinct inbound Meta messages of the sender (different        *)
(* provider message ids) are each dispatched, also when their text is the  *)
(* same and they arrive within the dedup window: a post is discarded as a  *)
(* duplicate only when an earlier post carried the same message id.        *)
(***************************************************************************)
C35_DistinctMessagesDispatched ==
    \A q \in 1..Len(posts) :
        posts[q].duplicate => \E p \in 1..(q - 1) : posts[p].body.id = posts[q].body.id

\* what get_key without an override returns on the pool as it is now
GetKeyNow == GetKey(NoCustom, available_at, key_dead, rr_counter, key_now)

\* get_key on the pool as it is now: ValueError exactly when every key is
\* dead; otherwise a key that is not dead, available when any key is, and
\* otherwise with the smallest available_at of the keys that are not dead
GetKeyContract ==
    LET pool == 1..Len(PoolKeys)
        any_available == \E i \in pool : IsAvailable(available_at, key_dead, key_now, i)
    IN  /\ GetKeyNow.key = "ValueError" <=> \A i \in pool : key_dead[i]
        /\ GetKeyNow.key # "ValueError" =>
              LET k == PoolIndex(GetKeyNow.key)
              IN  /\ ~key_dead[k]
                  /\ any_available => key_now >= available_at[k]
                  /\ ~any_available =>
                         \A j \in pool : ~key_dead[j] => available_at[k] <= available_at[j]

(***************************************************************************)
(* C36: get_key without an agent override never returns a dead key,        *)
(* returns an available key whenever a key of the pool is available,       *)
(* returns the key that is not dead with the smallest available_at when    *)
(* all are cooling down, and raises only when every key is dead; a key     *)
(* marked dead stays dead.  Checked for the pool before and after every    *)
(* step of the providers' retry loops.                                     *)
(***************************************************************************)
C36_GetKeyContractHolds ==
    [][/\ GetKeyContract
       /\ GetKeyContract'
       /\ \A i \in 1..Len(PoolKeys) : key_dead[i] => key_dead'[i]]_vars

\* K1 is dead and K2 is cooling down after a 429: get_key has returned K2,
\* the only key that is not dead, for the next attempt
C36_Witness ==
    \E r \in KeyCalls :
        /\ call_pc[r] = "calling"
        /\ call_custom[r] = NoCustom
        /\ call_key[r] = "K2"
        /\ key_last.key = "K2"
        /\ key_dead[1]
        /\ ~key_dead[2]
        /\ key_now < available_at[2]

(***************************************************************************)
(* C37: the tool loop of get_response terminates and serves every call:    *)
(* the tool handler is invoked at most 5 times per call and only for a     *)
(* completion that contains tool calls, and in every round each tool call  *)
(* receives the result of its own execution and each send_media result is  *)
(* added to media_actions exactly once.                                    *)
(***************************************************************************)
C37_ToolLoopServesEveryCall ==
    /\ handler_calls <= ToolRoundCap
    /\ handler_calls + max_tool_rounds = ToolRoundCap \/ tool_provider = "none"
    /\ \A k \in 1..Len(tool_results) : tool_results[k] = k
    /\ \A j, k \in 1..Len(media_actions) : j # k => media_actions[j] # media_actions[k]

\* effect x is in the log and every effect y of the log comes after it
Precedes(log, x, y) ==
    \A k \in 1..Len(log) : log[k] = y => \E j \in 1..(k - 1) : log[j] = x

(***************************************************************************)
(* C38: book_appointment on a free slot makes its effects in the order     *)
(* calendar event, local insert, reminders, appointment.created webhook:   *)
(* when the webhook is fired the appointment is stored and its reminders   *)
(* exist, and a call whose insert succeeded materializes its reminders.    *)
(***************************************************************************)
C38_WebhookAfterReminders ==
    \A c \in BookCalls :
        /\ Precedes(fx_log[c], "insert", "reminders")
        /\ Precedes(fx_log[c], "insert", "webhook")
        /\ Precedes(fx_log[c], "reminders", "webhook")
        /\ \A k \in 1..Len(fx_log[c]) : fx_log[c][k] = "calendar_event" => k = 1

(***************************************************************************)
(* C39: with full_summary_every = n > 0, exactly the runs numbered n, 2n,  *)
(* 3n, ... of the context-summary engine for a conversation are full       *)
(* summaries and all other runs are incremental.                           *)
(***************************************************************************)
C39_EveryNthRunIsFull ==
    full_summary_every > 0 =>
        every_full = {k \in 1..every_runs : k % full_summary_every = 0}

\* the runs of run_summary in progress (between the lock and the save)
RunsInProgress == {e \in Execs : run_pc[e] = "llm"}

(***************************************************************************)
(* C40: no two context-summary runs for the same conversation execute      *)
(* concurrently, and a task that deletes context_summary:lock:{conv} while *)
(* the lock is set is the only run in progress, so the lock is its own;    *)
(* for any interleaving of tasks, retries and expiry of the lock.          *)
(***************************************************************************)
C40_SummaryRunsExclusive ==
    [][/\ Cardinality(RunsInProgress') <= 1
       /\ \A e \in Execs :
             (ctx_lock /\ \E ok \in BOOLEAN : RunSummarySave(e, ok)) => RunsInProgress = {e}]_vars

====
